---- MODULE Spec2Model ----
(***************************************************************************)
(* Kindle highlights scraper: the resumable export store, the scrape       *)
(* orchestrator and the service's scrape trigger.                          *)
(*                                                                         *)
(* Python values are modelled as follows.  An optional value (None or v)   *)
(* is the sequence <<>> or <<v>>.  A Book / Highlight dataclass instance   *)
(* is a record with every field; the dict that book_to_dict builds is a    *)
(* record whose optional keys are present only when the code sets them.    *)
(* The JSON file at output_path is `disk`: it is missing, holds text that  *)
(* json.load rejects (an open(.., "w") that has truncated the file and not *)
(* yet written it), or holds an export document.                           *)
(***************************************************************************)
EXTENDS Integers, Sequences, FiniteSets, TLC

\* ------------------------------------------------------------------ bounds
\* Longest library listing get_book_list returns.
MaxLib == 2
\* Longest books list of a store the pure-store specification starts from.
MaxStore == 2
\* Longest library listing in the specifications that run two sessions at once.
MaxLibConc == 1
\* Number of distinct contents of one book among the values handed to the store.
NVersions == 2
\* Upper end of the wall clock read by datetime.now().
MaxClock == 1
\* Number of observations of one poll loop that the history keeps.
MaxPolls == 8
\* Longest class list, longest header text (in tokens), most annotation
\* blocks of a page and most metadata elements of a book page handed to the
\* extractors.
MaxClasses == 3
MaxTokens == 4
MaxItems == 2
MaxMeta == 3

\* Catalog identifiers of the books of the account.
Asins == {"B00A", "B00B"}

\* The processes that can run a scrape session: two request handlers of the
\* service (coroutines of one event loop) and one command-line process.
Handlers == {"h1", "h2"}
Procs == Handlers \cup {"cli"}

None == <<>>
Some(v) == <<v>>

\* ------------------------------------------------------------ scraped values
HighlightId(i) == IF i = 1 THEN "h1" ELSE IF i = 2 THEN "h2" ELSE IF i = 3 THEN "h3" ELSE "h4"

\* The i-th highlight of a page: the optional fields take every shape the
\* dataclass allows (absent, zero/empty, present).
Highlight(i) ==
    [id |-> HighlightId(i),
     color |-> IF i % 2 = 1 THEN "yellow" ELSE "blue",
     text |-> "text",
     page |-> IF i % 2 = 1 THEN None ELSE Some(i - 2),
     location |-> IF i % 3 = 0 THEN None ELSE Some(10 * i),
     note |-> IF i % 3 = 1 THEN None ELSE IF i % 3 = 2 THEN Some("") ELSE Some("note")]

\* The Book that parse_book_from_annotations_page returns for the page of
\* `asin` when the page shows content version v (v highlights).
Book(asin, v) ==
    [asin |-> asin,
     title |-> "Title",
     author |-> "Author",
     cover_url |-> "",
     highlights |-> [i \in 1..v |-> Highlight(i)]]

BookObjects == {Book(a, v) : a \in Asins, v \in 1..NVersions}

\* The contents the page of one book shows during the sessions: before and
\* after the reader adds a highlight to it.
PageVersions == {1, 2}

\* ------------------------------------------------------------- book_to_dict
highlight_to_dict(h) ==
    LET base == [id |-> h.id, color |-> h.color, text |-> h.text]
        withPage == IF h.page # None
                    THEN [k \in DOMAIN base \cup {"page"} |->
                            IF k = "page" THEN h.page[1] ELSE base[k]]
                    ELSE base
        withLoc == IF h.location # None
                   THEN [k \in DOMAIN withPage \cup {"location"} |->
                            IF k = "location" THEN h.location[1] ELSE withPage[k]]
                   ELSE withPage
    IN  \* `if highlight.note:` is false for None and for the empty string
        IF h.note # None /\ h.note[1] # ""
        THEN [k \in DOMAIN withLoc \cup {"note"} |->
                IF k = "note" THEN h.note[1] ELSE withLoc[k]]
        ELSE withLoc

book_to_dict(book) ==
    [asin |-> book.asin,
     title |-> book.title,
     author |-> book.author,
     cover_url |-> book.cover_url,
     highlights |-> [i \in 1..Len(book.highlights) |->
                        highlight_to_dict(book.highlights[i])]]

BookDicts == {book_to_dict(b) : b \in BookObjects}

\* ---------------------------------------------------------------- the file
Missing == [kind |-> "missing"]
Truncated == [kind |-> "truncated"]
\* A file that exists and whose open() raises an OSError.
Unreadable == [kind |-> "unreadable"]
JsonFile(data) == [kind |-> "json", data |-> data]

ExportData(ts, books) == [run |-> [timestamp |-> ts], books |-> books]

_empty_export_data(t) == ExportData(t, <<>>)

\* load_existing_data: a missing file, a file whose open raises and a file
\* json.load rejects all give a fresh empty document stamped with the current
\* time; whatever json.load accepts is returned as it is.
load_existing_data(file, t) ==
    IF file.kind = "missing" THEN _empty_export_data(t)
    ELSE IF file.kind = "truncated" THEN _empty_export_data(t)
    ELSE IF file.kind = "unreadable" THEN _empty_export_data(t)
    ELSE file.data

\* data.get("books", [])
BooksOf(data) == IF "books" \in DOMAIN data THEN data.books ELSE <<>>

get_existing_book_asins(data) == {BooksOf(data)[i].asin : i \in 1..Len(BooksOf(data))}

\* JSON documents that json.load accepts and that are not export documents:
\* an object with no "books", an object with no "run", an object with neither.
OtherDocuments ==
    {[run |-> [timestamp |-> 0]], [books |-> <<>>], [version |-> 1]}

\* save_book_progressively subscripts data["books"] (line 303) and
\* data["run"] (line 319): a missing key raises KeyError.
RaisesKeyError(data) == "books" \notin DOMAIN data \/ "run" \notin DOMAIN data

\* Index of the first entry with this asin (the enumerate loop with break).
FirstIndex(books, asin) ==
    CHOOSE i \in 1..Len(books) :
        /\ books[i].asin = asin
        /\ \A j \in 1..(i - 1) : books[j].asin # asin

\* save_book_progressively, lines "check if book already exists" to "update
\* timestamp": replace the first entry with the book's asin in place, or
\* append; then stamp the document with the current time.
UpsertAlwaysAppends(data, book, t) ==
    ExportData(t, Append(data.books, book_to_dict(book)))

UpsertKeepsOnlyNew(data, book, t) ==
    ExportData(t, <<book_to_dict(book)>>)

UpsertKeepsTimestamp(data, book, t) ==
    ExportData(data.run.timestamp,
               IF book.asin \in {data.books[i].asin : i \in 1..Len(data.books)}
               THEN [data.books EXCEPT
                        ![FirstIndex(data.books, book.asin)] = book_to_dict(book)]
               ELSE Append(data.books, book_to_dict(book)))

\* A variant that puts a new book first.
UpsertPrepends(data, book, t) ==
    IF book.asin \in {data.books[i].asin : i \in 1..Len(data.books)}
    THEN ExportData(t, [data.books EXCEPT
                          ![FirstIndex(data.books, book.asin)] = book_to_dict(book)])
    ELSE ExportData(t, <<book_to_dict(book)>> \o data.books)

UpsertMovesToEnd(data, book, t) ==
    ExportData(t, Append(SelectSeq(data.books, LAMBDA d : d.asin # book.asin),
                         book_to_dict(book)))

Upsert(data, book, t) ==
    LET existing_asins == {data.books[i].asin : i \in 1..Len(data.books)}
        book_dict == book_to_dict(book)
    IN  IF book.asin \in existing_asins
        THEN ExportData(t, [data.books EXCEPT
                              ![FirstIndex(data.books, book.asin)] = book_dict])
        ELSE ExportData(t, Append(data.books, book_dict))

\* export_to_json: a fresh document holding exactly the books of this run.
ExportBatch(books, t) ==
    ExportData(t, [i \in 1..Len(books) |-> book_to_dict(books[i])])

\* ------------------------------------------------------------------- state
VARIABLES
    disk,         \* the file at output_path
    now,          \* the wall clock
    pc,           \* pc[p]: where process p stands
    run,          \* run[p]: the locals of p's scrape session
    scrape_lock,  \* app.state.scrape_lock is held
    resp,         \* resp[h]: status of handler h's last response ("none" before)
    persisted,    \* history: the books of the last completely written document
    ups,          \* history: the last two completed direct upserts, oldest first
    lost          \* history: asins whose upsert another session's upsert erased

vars == <<disk, now, pc, run, scrape_lock, resp, persisted, ups, lost>>

\* All sequences over S of length at most n.
RECURSIVE SeqsUpTo(_, _)
SeqsUpTo(S, n) ==
    IF n = 0 THEN {<<>>}
    ELSE LET shorter == SeqsUpTo(S, n - 1)
         IN  shorter \cup {Append(s, x) : s \in shorter, x \in S}

\* The listings parse_book_library can return: one dict per book element of
\* the library HTML, in document order, not deduplicated.
Listings(n) == SeqsUpTo({[asin |-> a] : a \in Asins}, n)

\* ------------------------------------------------------------ the extractors
\* The repository holds two extractor modules: kindle_highlights/parser.py,
\* which the command line imports, and src/parser.py, which the service
\* imports.  The operators of the second carry the suffix _src.
Packages == {"kindle_highlights", "src"}

\* The least element of a non-empty set of numbers.
Least(S) == CHOOSE x \in S : \A y \in S : x <= y

\* A CSS class name, cut before its last hyphen: the name is stem followed
\* by suffix, so that name.endswith("-blue") is suffix = "-blue".
Class(stem, suffix) == [stem |-> stem, suffix |-> suffix]

ColorSuffixes == {"-yellow", "-blue", "-pink", "-orange"}

ColorOf(suffix) ==
    IF suffix = "-yellow" THEN "yellow"
    ELSE IF suffix = "-blue" THEN "blue"
    ELSE IF suffix = "-pink" THEN "pink"
    ELSE "orange"

\* The keys of color_map: kp-notebook-highlight-yellow, -blue, -pink, -orange.
color_map == {Class("kp-notebook-highlight", x) : x \in ColorSuffixes}

\* The class names of the inputs: the four color classes, the class every
\* highlight element has, and two classes of other components.
ClassNames ==
    color_map \cup {Class("kp-notebook", "-highlight"),
                    Class("a-alert-inline", "-blue"),
                    Class("a-size", "-base")}

\* kindle_highlights/parser.py: the first class that ends with -yellow,
\* -blue, -pink or -orange decides; yellow when there is none.
extract_color_from_classes(classes) ==
    LET hits == {i \in 1..Len(classes) : classes[i].suffix \in ColorSuffixes}
    IN  IF hits = {} THEN "yellow" ELSE ColorOf(classes[Least(hits)].suffix)

\* src/parser.py: the first class that is a key of color_map decides.
extract_color_from_classes_src(classes) ==
    LET hits == {i \in 1..Len(classes) : classes[i] \in color_map}
    IN  IF hits = {} THEN "yellow" ELSE ColorOf(classes[Least(hits)].suffix)

\* A header text as a sequence of tokens: the literal "Page ", the literal
\* "Location ", a maximal run of digits (with its value), any other text.
Word(w) == [word |-> w, n |-> 0]
Digits(n) == [word |-> "digits", n |-> n]

Tokens == {Word("Page "), Word("Location "), Word("x"), Digits(7), Digits(42)}

\* Texts in which no two runs of digits are adjacent (they would be one run).
Texts ==
    {t \in SeqsUpTo(Tokens, MaxTokens) :
        \A i \in 1..(Len(t) - 1) : ~(t[i].word = "digits" /\ t[i + 1].word = "digits")}

\* re.search(word + r"(\d+)", text): the positions where the word is directly
\* followed by digits.
Matches(text, w) ==
    {i \in 1..(Len(text) - 1) : text[i].word = w /\ text[i + 1].word = "digits"}

\* int(match.group(1)) of the first match, or None.
SearchNumber(text, w) ==
    IF Matches(text, w) = {} THEN None
    ELSE Some(text[Least(Matches(text, w)) + 1].n)

\* A variant in which a page match hides the location (elif for if).
extract_page_location_else(text) ==
    [page |-> SearchNumber(text, "Page "),
     location |-> IF SearchNumber(text, "Page ") # None THEN None
                  ELSE SearchNumber(text, "Location ")]

\* extract_page_location (the same in both modules): two searches, each
\* setting its own result.
extract_page_location(text) ==
    [page |-> SearchNumber(text, "Page "),
     location |-> SearchNumber(text, "Location ")]

\* The header of every annotation block of the inputs: "Page 42 x Location 283".
HeaderText ==
    <<Word("Page "), Digits(42), Word("x"), Word("Location "), Digits(283)>>

\* The class list of every highlight element of the inputs.
HighlightClasses ==
    <<Class("kp-notebook", "-highlight"), Class("kp-notebook-highlight", "-blue")>>

\* One div.kp-notebook-highlight of a page and what surrounds it:
\*   block_id  the id attribute of the div that wraps it (None: no wrapping
\*             div with an id attribute; "": the attribute is empty),
\*   elem_id   the id attribute of the highlight element itself,
\*   span      the stripped text of its span.a-size-base-plus (None: no span),
\*   own_text  the stripped text of the element when it has no span.
\* Every block has the header HeaderText, the classes HighlightClasses, no
\* location input and no note.
Items ==
    [block_id : {None, Some(""), Some("QID1")},
     elem_id : {None, Some("highlight-QID1")},
     span : {None, Some(""), Some("text")},
     own_text : {"", "raw"}]

\* An annotations page: whether div#kp-notebook-annotations is there, and the
\* highlight elements in document order (inside it when it is there).
AnnotationPages ==
    [container : BOOLEAN, items : SeqsUpTo(Items, MaxItems)]

\* The Highlight dataclass instance.
HighlightOf(id, color, text, pl) ==
    [id |-> id, color |-> color, text |-> text,
     page |-> pl.page, location |-> pl.location, note |-> None]

\* kindle_highlights/parser.py, the body of `for block in annotation_blocks`:
\* the highlights (none or one) the block adds.
parse_block(item) ==
    IF item.block_id = None \/ item.block_id[1] = "" THEN <<>>
    ELSE LET text == IF item.span # None THEN item.span[1] ELSE ""
         IN  IF text # ""
             THEN <<HighlightOf(item.block_id[1],
                                extract_color_from_classes(HighlightClasses),
                                text,
                                extract_page_location(HeaderText))>>
             ELSE <<>>

\* src/parser.py, the body of `for element in highlight_elements`: the id of
\* the element or of its nearest ancestor with an id attribute (the container
\* at the latest), the text of the span or of the element; always appended.
parse_element_src(item) ==
    LET highlight_id ==
            IF item.elem_id # None /\ item.elem_id[1] # "" THEN item.elem_id[1]
            ELSE IF item.block_id # None THEN item.block_id[1]
            ELSE "kp-notebook-annotations"
        text == IF item.span # None THEN item.span[1] ELSE item.own_text
    IN  <<HighlightOf(highlight_id,
                      extract_color_from_classes_src(HighlightClasses),
                      text,
                      extract_page_location(HeaderText))>>

RECURSIVE ParseItems(_, _)
ParseItems(items, package) ==
    IF items = <<>> THEN <<>>
    ELSE (IF package = "src" THEN parse_element_src(Head(items))
          ELSE parse_block(Head(items)))
         \o ParseItems(Tail(items), package)

\* A variant that scans the whole document, container or not.
parse_annotations_html_anywhere(page, package) == ParseItems(page.items, package)

\* parse_annotations_html of either module: nothing without the container.
parse_annotations_html(page, package) ==
    IF ~page.container THEN <<>> ELSE ParseItems(page.items, package)

\* An element with class kp-notebook-metadata: its tag and stripped text.
MetaElems ==
    [tag : {"h3", "p"}, text : {"", "Title", "Your Kindle Notes For:"}]

\* A book page: the value of input#kp-notebook-annotations-asin (None: no
\* such input), the metadata elements in document order, and its annotations.
BookPageAnnotations ==
    {[container |-> FALSE, items |-> <<>>],
     [container |-> TRUE,
      items |-> <<[block_id |-> Some("QID1"), elem_id |-> Some("highlight-QID1"),
                   span |-> Some("text"), own_text |-> ""]>>]}

BookPages ==
    [asin_input : {None, Some(""), Some("B00A")},
     metadata : SeqsUpTo(MetaElems, MaxMeta),
     annotations : BookPageAnnotations]

BookOf(asin, title, author, highlights) ==
    [asin |-> asin, title |-> title, author |-> author, cover_url |-> "",
     highlights |-> highlights]

\* kindle_highlights/parser.py: the title is the text of the first h3, the
\* author the first p whose text is not empty and is not the "Your Kindle
\* Notes For:" line; None when asin or title is empty.
parse_book_from_annotations_page(page) ==
    LET asin == IF page.asin_input # None THEN page.asin_input[1] ELSE ""
        h3s == {i \in 1..Len(page.metadata) : page.metadata[i].tag = "h3"}
        title == IF h3s = {} THEN "" ELSE page.metadata[Least(h3s)].text
        ps == {i \in 1..Len(page.metadata) :
                  /\ page.metadata[i].tag = "p"
                  /\ page.metadata[i].text # ""
                  /\ page.metadata[i].text # "Your Kindle Notes For:"}
        author == IF ps = {} THEN "" ELSE page.metadata[Least(ps)].text
        highlights == parse_annotations_html(page.annotations, "kindle_highlights")
    IN  IF asin = "" \/ title = "" THEN None
        ELSE Some(BookOf(asin, title, author, highlights))

\* src/parser.py: None with fewer than three metadata elements; otherwise the
\* title is the text of the first and the author the text of the third.
parse_book_from_annotations_page_src(page) ==
    IF Len(page.metadata) < 3 THEN None
    ELSE Some(BookOf(IF page.asin_input # None THEN page.asin_input[1] ELSE "",
                     page.metadata[1].text,
                     page.metadata[3].text,
                     parse_annotations_html(page.annotations, "src")))

\* A library page: whether div#kp-notebook-library wraps the entries, and the
\* id attribute of each div.kp-notebook-library-each-book in document order.
LibraryPages ==
    [wrapper : BOOLEAN,
     entries : SeqsUpTo({None, Some("")} \cup {Some(a) : a \in Asins}, MaxLib)]

LibraryDict(asin) ==
    [asin |-> asin, title |-> "Title", author |-> "Author", cover_url |-> ""]

\* kindle_highlights/parser.py: with or without the wrapper, one dict per
\* entry that has a non-empty id.
parse_book_library(page) ==
    LET kept == SelectSeq(page.entries, LAMBDA e : e # None /\ e[1] # "")
    IN  [i \in 1..Len(kept) |-> LibraryDict(kept[i][1])]

\* src/parser.py: one dict per entry, its asin "" when the id is missing.
parse_book_library_src(page) ==
    [i \in 1..Len(page.entries) |->
        LibraryDict(IF page.entries[i] # None THEN page.entries[i][1] ELSE "")]

\* What BeautifulSoup finds in the empty string: nothing.
EmptyAnnotationPage == [container |-> FALSE, items |-> <<>>]
EmptyBookPage == [asin_input |-> None, metadata |-> <<>>, annotations |-> EmptyAnnotationPage]
EmptyLibraryPage == [wrapper |-> FALSE, entries |-> <<>>]

\* The state of one call of authenticate.
AuthIdle ==
    [headless |-> TRUE,           \* self.headless
     totp_secret |-> None,        \* self.totp_secret (AMAZON_TOTP_SECRET)
     result |-> None,             \* the value authenticate returned
     submitted |-> <<>>,          \* history: the fields filled and submitted
     waited |-> <<>>,             \* history: the wait_for_selector calls made
     timed_out |-> "none",        \* history: the wait that timed out
     library_at_check |-> FALSE,  \* history: the library marker was there at line 44
     totp_at_check |-> FALSE]     \* history: the code field was there at line 66

IdleRun ==
    [asin |-> None,            \* parameter specific_asin
     resume |-> TRUE,          \* parameter resume
     existing_asins |-> {},    \* scrape_all_books: existing_asins
     book_list |-> <<>>,       \* scrape_all_books: book_list
     idx |-> 0,                \* position of the for loop in book_list
     target |-> None,          \* asin whose scrape is in flight
     books |-> <<>>,           \* scrape_all_books: books
     book |-> None,            \* save_book_progressively: book
     data |-> None,            \* save_book_progressively / export_to_json: data
     caller |-> "none",        \* who called save_book_progressively
     loaded |-> <<>>,          \* history: data["books"] as save_book_progressively loaded it
     start |-> <<>>,           \* history: books a load returned when the run began
     outcome |-> <<>>,         \* history: what happened to each listing entry
     last_count |-> 0,         \* poll loop: last_count
     stable_count |-> 0,       \* poll loop: stable_count
     current_count |-> 0,      \* poll loop: current_count
     observed |-> <<>>,        \* history: the counts the poll loop has observed
     more |-> FALSE,           \* history: the loop observed more than `observed` keeps
     auth |-> AuthIdle,        \* authenticate: configuration, result and history
     call |-> None,            \* an extractor call: function, module, argument, result
     payload |-> None,         \* trigger_scrape: the request payload
     calls |-> 0,              \* history: calls of the scrape callable by this request
     response |-> None,        \* the body of the response of a request handler
     banner |-> FALSE,         \* history: the page of `book` showed the truncation banner
     warned |-> FALSE,         \* history: the truncation warning was printed for `book`
     browser |-> "none",       \* scrape_all_books: `browser` (none, open, closed, stopped)
     state_saved |-> FALSE]    \* history: context.storage_state(path) was written

AsinsOf(books) == {books[i].asin : i \in 1..Len(books)}

FileBooks(file) == BooksOf(load_existing_data(file, 0))

\* `if specific_asin:` is false for None and for the empty string.
IsSpecificNever(asin) == FALSE

IsSpecific(asin) == asin # None /\ asin[1] # ""

\* The books of q's session whose save_book_progressively has returned.
SavedBooks(q) ==
    IF pc[q] \in {"save_open", "save_dump"}
    THEN SubSeq(run[q].books, 1, Len(run[q].books) - 1)
    ELSE run[q].books

\* The last completed direct upsert: the Book, data["books"] as loaded, and
\* the books the file holds after the write.  The one before it keeps its
\* Book and its written books.
LastUp == ups[Len(ups)]

\* Asins another live session has upserted that the upsert write of `books`
\* by p, replacing the document `persisted`, erases.
ErasedBy(p, books) ==
    {a \in AsinsOf(persisted) \ AsinsOf(books) :
        \E q \in Procs \ {p} : a \in AsinsOf(SavedBooks(q))}

\* A scrape session is between its start and its return to the caller.
InSession(p) ==
    pc[p] \in {"auth", "list", "loop", "scrape", "save_open", "save_dump",
               "returned", "export_dump", "done", "raised"}

\* ------------------------------------------------------------- the service
\* trigger_scrape line 135: `if lock.locked(): raise HTTPException(409)`.
LockedCheckSkipped == FALSE

LockedCheck == scrape_lock

\* A POST /scrape request reaches the service and its handler coroutine is
\* scheduled.
Arrive(h) ==
    /\ pc[h] = "idle"
    /\ pc' = [pc EXCEPT ![h] = "received"]
    /\ resp' = [resp EXCEPT ![h] = "none"]
    /\ UNCHANGED <<disk, now, run, scrape_lock, persisted, ups, lost>>

\* The payloads of POST /scrape.
Payloads ==
    [asin : {None} \cup {Some(a) : a \in Asins}, headful : BOOLEAN, fresh : BOOLEAN]

\* The call scrape_func(output_path, asin, headless, resume): the state of
\* the session it starts.
scrape_func(asin, headless, resume) ==
    [IdleRun EXCEPT !.asin = asin,
                    !.resume = resume,
                    !.auth.headless = headless,
                    !.start = FileBooks(disk),
                    !.calls = IdleRun.calls + 1]

\* trigger_scrape lines 131-147: the handler of an accepted request.
Accepted(payload) ==
    LET resume == ~payload.fresh
        headless == ~payload.headful
    IN  [scrape_func(payload.asin, headless, resume) EXCEPT !.payload = Some(payload)]

\* A variant that reports the number of books as the number of highlights.
total_highlights_per_book(books) == Len(books)

\* sum(len(book.highlights) for book in books)
RECURSIVE total_highlights(_)
total_highlights(books) ==
    IF books = <<>> THEN 0
    ELSE Len(Head(books).highlights) + total_highlights(Tail(books))

\* trigger_scrape lines 154-163: the response (the output path, which is
\* fixed, is left out).
ScrapeResponse(asin, books, resume) ==
    [asin |-> asin,
     books |-> Len(books),
     highlights |-> total_highlights(books),
     resume |-> resume,
     timestamp |-> now]

\* The handler p once it has answered: the response body when the callable
\* returned, nothing else.
Answered(p) ==
    IF pc[p] = "done"
    THEN [IdleRun EXCEPT !.response =
            Some([endpoint |-> "/scrape",
                  body |-> ScrapeResponse(run[p].asin, run[p].books, run[p].resume)])]
    ELSE IdleRun

\* A variant in which a rejected request releases the lock.
trigger_scrape_rejecting_unlocks(h, alone) ==
    /\ pc[h] = "received"
    /\ IF LockedCheck
       THEN /\ pc' = [pc EXCEPT ![h] = "responded"]
            /\ resp' = [resp EXCEPT ![h] = "409"]
            /\ scrape_lock' = FALSE
            /\ UNCHANGED run
       ELSE IF scrape_lock
       THEN \* `async with lock` on a held lock suspends until it is released
            /\ pc' = [pc EXCEPT ![h] = "waiting"]
            /\ UNCHANGED <<run, scrape_lock, resp>>
       ELSE /\ alone => ~InSession("cli")
            /\ scrape_lock' = TRUE
            /\ pc' = [pc EXCEPT ![h] = "auth"]
            /\ \E payload \in Payloads :
                  run' = [run EXCEPT ![h] = Accepted(payload)]
            /\ UNCHANGED resp
    /\ UNCHANGED <<disk, now, persisted, ups, lost>>

\* trigger_scrape from its first line to the first suspension inside the
\* scrape callable, with the payload (asin, headful, fresh) of the request.  No await lies between the locked() test and the
\* acquisition: on a free lock `async with lock` acquires without yielding.
\* `alone` states the single-writer assumption of the store (no other process
\* is in a session on this output path).
trigger_scrape(h, alone) ==
    /\ pc[h] = "received"
    /\ IF LockedCheck
       THEN /\ pc' = [pc EXCEPT ![h] = "responded"]
            /\ resp' = [resp EXCEPT ![h] = "409"]
            /\ UNCHANGED <<run, scrape_lock>>
       ELSE IF scrape_lock
       THEN \* `async with lock` on a held lock suspends until it is released
            /\ pc' = [pc EXCEPT ![h] = "waiting"]
            /\ UNCHANGED <<run, scrape_lock, resp>>
       ELSE /\ alone => ~InSession("cli")
            /\ scrape_lock' = TRUE
            /\ pc' = [pc EXCEPT ![h] = "auth"]
            /\ \E payload \in Payloads :
                  run' = [run EXCEPT ![h] = Accepted(payload)]
            /\ UNCHANGED resp
    /\ UNCHANGED <<disk, now, persisted, ups, lost>>

\* The connection of an answered request closes.
Close(h) ==
    /\ pc[h] = "responded"
    /\ pc' = [pc EXCEPT ![h] = "idle"]
    /\ run' = [run EXCEPT ![h] = IdleRun]
    /\ UNCHANGED <<disk, now, scrape_lock, resp, persisted, ups, lost>>

\* ------------------------------------------------- the read-only endpoints
\* load_cached_export: a missing file gives an empty document with a null
\* timestamp; a file that cannot be read or parsed, and a document without
\* "books" or "run", give HTTP 500.
load_cached_export(file) ==
    IF file.kind = "missing"
    THEN [status |-> "200", data |-> ExportData(None, <<>>)]
    ELSE IF file.kind \in {"truncated", "unreadable"} THEN [status |-> "500"]
    ELSE IF RaisesKeyError(file.data) THEN [status |-> "500"]
    ELSE [status |-> "200", data |-> file.data]

\* A variant that lists the books last first.
list_books_reversed(cached) ==
    [run |-> cached.run,
     count |-> Len(cached.books),
     books |-> [i \in 1..Len(cached.books) |-> cached.books[Len(cached.books) + 1 - i]]]

\* The body list_books returns.
list_books_body(cached) ==
    [run |-> cached.run, count |-> Len(cached.books), books |-> cached.books]

\* A variant that takes the author from the title.
enriched_by_title(highlight, book) ==
    [k \in DOMAIN highlight \cup {"asin", "title", "author"} |->
        IF k = "asin" THEN book.asin
        ELSE IF k \in {"title", "author"} THEN book.title
        ELSE highlight[k]]

\* {**highlight, "asin": ..., "title": ..., "author": ...}
enriched(highlight, book) ==
    [k \in DOMAIN highlight \cup {"asin", "title", "author"} |->
        IF k = "asin" THEN book.asin
        ELSE IF k = "title" THEN book.title
        ELSE IF k = "author" THEN book.author
        ELSE highlight[k]]

\* The two nested for loops of list_highlights.
RECURSIVE Flatten(_)
Flatten(books) ==
    IF books = <<>> THEN <<>>
    ELSE [i \in 1..Len(Head(books).highlights) |->
             enriched(Head(books).highlights[i], Head(books))]
         \o Flatten(Tail(books))

\* The body list_highlights returns.
list_highlights_body(cached) ==
    [run |-> cached.run,
     count |-> Len(Flatten(cached.books)),
     highlights |-> Flatten(cached.books)]

\* The state of h after a GET handler answered with `body`, or with the
\* HTTP 500 load_cached_export raised.
Reply(h, endpoint, body) ==
    [run EXCEPT ![h].response =
        IF load_cached_export(disk).status = "200"
        THEN Some([endpoint |-> endpoint, body |-> body])
        ELSE None]

list_books(h) ==
    /\ pc[h] = "received"
    /\ pc' = [pc EXCEPT ![h] = "responded"]
    /\ resp' = [resp EXCEPT ![h] = load_cached_export(disk).status]
    /\ run' = Reply(h, "/books",
                    IF load_cached_export(disk).status = "200"
                    THEN list_books_body(load_cached_export(disk).data) ELSE None)
    /\ UNCHANGED <<disk, now, scrape_lock, persisted, ups, lost>>

list_highlights(h) ==
    /\ pc[h] = "received"
    /\ pc' = [pc EXCEPT ![h] = "responded"]
    /\ resp' = [resp EXCEPT ![h] = load_cached_export(disk).status]
    /\ run' = Reply(h, "/highlights",
                    IF load_cached_export(disk).status = "200"
                    THEN list_highlights_body(load_cached_export(disk).data) ELSE None)
    /\ UNCHANGED <<disk, now, scrape_lock, persisted, ups, lost>>

\* ------------------------------------------------------- the command line
\* main: `scrape` never passes resume, so the session runs with resume=True.
main(alone) ==
    /\ pc["cli"] = "idle"
    /\ alone => \A h \in Handlers : ~InSession(h)
    /\ \E asin \in {None} \cup {Some(a) : a \in Asins} :
          run' = [run EXCEPT !["cli"] = [IdleRun EXCEPT !.asin = asin,
                                                        !.resume = TRUE,
                                                        !.start = FileBooks(disk)]]
    /\ pc' = [pc EXCEPT !["cli"] = "auth"]
    /\ UNCHANGED <<disk, now, scrape_lock, resp, persisted, ups, lost>>

\* ------------------------------------------------------- scrape_all_books
\* scrape_all_books line 234: `if resume and asin in existing_asins`.
ShouldSkipNever(resume, asin, existing_asins) == FALSE

ShouldSkip(resume, asin, existing_asins) == resume /\ asin \in existing_asins

\* What the for loop does after a scrape that returned None (`if book:` is
\* false): fall through to the next entry.
AfterFailedScrapeAborts(p) == "returned"

AfterFailedScrape(p) == IF IsSpecific(run[p].asin) THEN "returned" ELSE "loop"

\* Where scrape_all_books stands after an authenticate that returned False
\* (`raise Exception("Authentication failed")`) or raised.
AfterAuthFailureGoesOn == "list"

AfterAuthFailure == "raised"

\* The session of p once the browser is launched and authenticate has run:
\* nothing reads payload.headful or self.headless from here on, and the
\* session keeps payload.asin and payload.fresh as specific_asin and resume;
\* the state forgets the payload and the flag.
Launched(p) ==
    [run[p] EXCEPT !.payload = None, !.auth.headless = AuthIdle.headless,
                   !.browser = "open"]

\* `finally: await browser.close()`: the browser is closed whether the try
\* block returned ("return") or raised ("raise").
BrowserAfterOnReturnOnly(way) == IF way = "return" THEN "closed" ELSE "open"

BrowserAfter(way) == "closed"

\* authenticate, then the code up to the first page operation that follows:
\* a failed authentication (authenticate returns False, or raises from its
\* manual wait) raises; a single-ASIN run clicks its book; a full run loads
\* existing_data (an empty document when resume is false) and starts
\* get_book_list.
Authenticate(p) ==
    /\ pc[p] = "auth"
    /\ \/ /\ pc' = [pc EXCEPT ![p] = AfterAuthFailure]
          /\ \/ run' = [run EXCEPT ![p] = [Launched(p) EXCEPT
                                              !.auth.result = Some(FALSE),
                                              !.browser = BrowserAfter("raise")]]
             \/ run' = [run EXCEPT ![p] = [Launched(p) EXCEPT
                                              !.auth.timed_out = "manual",
                                              !.browser = BrowserAfter("raise")]]
       \/ \* new_context or new_page raises: the try block is not entered,
          \* and leaving `async with async_playwright()` stops the driver
          \* and the browser with it
          /\ pc' = [pc EXCEPT ![p] = "raised"]
          /\ run' = [run EXCEPT ![p] = [Launched(p) EXCEPT !.browser = "stopped"]]
       \/ \* context.storage_state(path) raises after a successful login
          /\ pc' = [pc EXCEPT ![p] = "raised"]
          /\ run' = [run EXCEPT ![p] = [Launched(p) EXCEPT
                                           !.auth.result = Some(TRUE),
                                           !.browser = BrowserAfter("raise")]]
       \/ IF IsSpecific(run[p].asin)
          THEN /\ pc' = [pc EXCEPT ![p] = "scrape"]
               /\ run' = [run EXCEPT ![p] = [Launched(p) EXCEPT
                                                !.target = run[p].asin,
                                                !.state_saved = TRUE,
                                                !.auth.result = Some(TRUE)]]
          ELSE LET existing_data == IF run[p].resume
                                    THEN load_existing_data(disk, now)
                                    ELSE [books |-> <<>>]
               IN  /\ pc' = [pc EXCEPT ![p] = "list"]
                   /\ run' = [run EXCEPT ![p] = [Launched(p) EXCEPT
                                                    !.existing_asins =
                                                        get_existing_book_asins(existing_data),
                                                    !.state_saved = TRUE,
                                                    !.auth.result = Some(TRUE)]]
    /\ UNCHANGED <<disk, now, scrape_lock, resp, persisted, ups, lost>>

\* get_book_list returns the parsed listing (of at most n entries), or a page
\* operation raises.
GetBookList(p, n) ==
    /\ pc[p] = "list"
    /\ \/ \E listing \in Listings(n) :
            /\ run' = [run EXCEPT ![p].book_list = listing, ![p].idx = 1]
            /\ pc' = [pc EXCEPT ![p] = "loop"]
       \/ /\ pc' = [pc EXCEPT ![p] = "raised"]
          /\ run' = [run EXCEPT ![p].browser = BrowserAfter("raise")]
    /\ UNCHANGED <<disk, now, scrape_lock, resp, persisted, ups, lost>>

\* The head of `for book_info in book_list`: leave the loop (return books,
\* close the browser), skip the entry, or click it.
Loop(p) ==
    /\ pc[p] = "loop"
    /\ IF run[p].idx > Len(run[p].book_list)
       THEN /\ pc' = [pc EXCEPT ![p] = "returned"]
            /\ run' = [run EXCEPT ![p].browser = BrowserAfter("return")]
       ELSE LET asin == run[p].book_list[run[p].idx].asin
            IN  IF ShouldSkip(run[p].resume, asin, run[p].existing_asins)
                THEN /\ run' = [run EXCEPT ![p].idx = @ + 1,
                                           ![p].outcome = Append(@, "skipped")]
                     /\ UNCHANGED pc
                ELSE /\ run' = [run EXCEPT ![p].target = Some(asin)]
                     /\ pc' = [pc EXCEPT ![p] = "scrape"]
    /\ UNCHANGED <<disk, now, scrape_lock, resp, persisted, ups, lost>>

\* A variant without the `if book:` test: the entry whose scrape failed
\* still puts a book into `books`.
ScrapeFailsKeepsBook(p) ==
    /\ pc[p] = "scrape"
    /\ pc' = [pc EXCEPT ![p] = AfterFailedScrape(p)]
    /\ \E v \in PageVersions :
          run' = [run EXCEPT ![p].target = None,
                             ![p].idx = @ + 1,
                             ![p].books = Append(@, Book(run[p].target[1], v)),
                             ![p].browser = IF AfterFailedScrape(p) = "returned"
                                            THEN BrowserAfter("return") ELSE @,
                             ![p].outcome = Append(@, "failed")]
    /\ UNCHANGED <<disk, now, scrape_lock, resp, persisted, ups, lost>>

\* scrape_book_highlights returns None: the annotations did not load within
\* the timeout (the except branch), or parse_book_from_annotations_page found
\* no asin or no title.  Both leave the caller with `book` None.
ScrapeFails(p) ==
    /\ pc[p] = "scrape"
    /\ pc' = [pc EXCEPT ![p] = AfterFailedScrape(p)]
    /\ run' = [run EXCEPT ![p].target = None,
                          ![p].idx = @ + 1,
                          ![p].browser = IF AfterFailedScrape(p) = "returned"
                                         THEN BrowserAfter("return") ELSE @,
                          ![p].outcome = Append(@, "failed")]
    /\ UNCHANGED <<disk, now, scrape_lock, resp, persisted, ups, lost>>

\* A page operation of scrape_book_highlights raises (a click or a script
\* that fails): nothing in scrape_all_books catches it.
ScrapeRaises(p) ==
    /\ pc[p] = "scrape"
    /\ pc' = [pc EXCEPT ![p] = "raised"]
    /\ run' = [run EXCEPT ![p].target = None,
                          ![p].browser = BrowserAfter("raise")]
    /\ UNCHANGED <<disk, now, scrape_lock, resp, persisted, ups, lost>>

\* `if await truncation_banner.count() > 0: print("Warning: ...")`.
TruncationWarning(count) == count > 0

\* scrape_book_highlights returns the Book of the clicked entry's page, with
\* or without the truncation banner on it; books.append(book);
\* save_book_progressively begins and loads the file.
ScrapeReturnsBook(p) ==
    /\ pc[p] = "scrape"
    /\ \E v \in PageVersions, count \in {0, 1} :
          LET book == Book(run[p].target[1], v)
              data == load_existing_data(disk, now)
          IN  run' = [run EXCEPT ![p].target = None,
                                 ![p].books = Append(@, book),
                                 ![p].book = Some(book),
                                 ![p].data = Some(data),
                                 ![p].loaded = BooksOf(data),
                                 ![p].banner = (count > 0),
                                 ![p].warned = TruncationWarning(count),
                                 ![p].caller = IF IsSpecific(run[p].asin)
                                               THEN "single" ELSE "loop"]
    /\ pc' = [pc EXCEPT ![p] = "save_open"]
    /\ UNCHANGED <<disk, now, scrape_lock, resp, persisted, ups, lost>>

\* ------------------------------------------------ save_book_progressively
\* The upsert on the loaded document, the timestamp, mkdir, and
\* open(output_path, "w"), which truncates the file.  On a loaded document
\* without "books" or "run" the subscript raises before the file is opened.
\* save_book_progressively receives the Book alone: what the page showed
\* besides it is out of reach from here on.
SaveOpen(p) ==
    /\ pc[p] = "save_open"
    /\ IF RaisesKeyError(run[p].data[1])
       THEN /\ pc' = [pc EXCEPT ![p] = "raised"]
            /\ run' = [run EXCEPT ![p].banner = FALSE, ![p].warned = FALSE,
                                  ![p].browser = IF @ = "open"
                                                 THEN BrowserAfter("raise") ELSE @]
            /\ UNCHANGED disk
       ELSE /\ run' = [run EXCEPT ![p].data =
                          Some(Upsert(run[p].data[1], run[p].book[1], now)),
                                  ![p].banner = FALSE,
                                  ![p].warned = FALSE]
            /\ disk' = Truncated
            /\ pc' = [pc EXCEPT ![p] = "save_dump"]
    /\ UNCHANGED <<now, scrape_lock, resp, persisted, ups, lost>>

\* json.dump(data, f) and the close of the file; control returns to the
\* caller: the next loop entry, the end of a single-ASIN run, or the direct
\* caller.  `track` records the upsert in the history `ups`.
SaveDump(p, track) ==
    /\ pc[p] = "save_dump"
    /\ disk' = JsonFile(run[p].data[1])
    /\ persisted' = run[p].data[1].books
    /\ lost' = lost \cup ErasedBy(p, run[p].data[1].books)
    /\ ups' = IF track
              THEN Append(IF ups = <<>> THEN <<>>
                          ELSE <<[book |-> LastUp.book, after |-> LastUp.after]>>,
                          [book |-> run[p].book[1],
                           before |-> run[p].loaded,
                           after |-> FileBooks(disk')])
              ELSE ups
    /\ IF run[p].caller = "loop"
       THEN /\ pc' = [pc EXCEPT ![p] = "loop"]
            /\ run' = [run EXCEPT ![p].idx = @ + 1,
                                  ![p].outcome = Append(@, "saved"),
                                  ![p].book = None, ![p].data = None,
                                  ![p].loaded = <<>>, ![p].caller = "none"]
       ELSE IF run[p].caller = "single"
       THEN /\ pc' = [pc EXCEPT ![p] = "returned"]
            /\ run' = [run EXCEPT ![p].outcome = Append(@, "saved"),
                                  ![p].browser = BrowserAfter("return"),
                                  ![p].book = None, ![p].data = None,
                                  ![p].loaded = <<>>, ![p].caller = "none"]
       ELSE /\ pc' = [pc EXCEPT ![p] = "idle"]
            /\ run' = [run EXCEPT ![p] = IdleRun]
    /\ UNCHANGED <<now, scrape_lock, resp>>

\* ------------------------------------------------ scrape_kindle_highlights
\* scrape_all_books has returned `books`.  `if not resume and books:`
\* export_to_json builds a fresh document from this run's books and opens
\* the file for writing.
Returned(p) ==
    /\ pc[p] = "returned"
    /\ IF ~run[p].resume /\ run[p].books # <<>>
       THEN /\ run' = [run EXCEPT ![p].data = Some(ExportBatch(run[p].books, now))]
            /\ disk' = Truncated
            /\ pc' = [pc EXCEPT ![p] = "export_dump"]
       ELSE /\ pc' = [pc EXCEPT ![p] = "done"]
            /\ UNCHANGED <<run, disk>>
    /\ UNCHANGED <<now, scrape_lock, resp, persisted, ups, lost>>

\* export_to_json: json.dump(data, f).
ExportDump(p) ==
    /\ pc[p] = "export_dump"
    /\ disk' = JsonFile(run[p].data[1])
    /\ persisted' = run[p].data[1].books
    /\ run' = [run EXCEPT ![p].data = None]
    /\ pc' = [pc EXCEPT ![p] = "done"]
    /\ UNCHANGED <<now, scrape_lock, resp, ups, lost>>

\* The exit of `async with lock` in trigger_scrape: the lock is released
\* whether the body returned ("done") or raised ("raised").
LockHeldAfterKeptOnError(outcome) == outcome = "raised"

LockHeldAfter(outcome) == FALSE

\* The session's result reaches its caller.  trigger_scrape leaves
\* `async with lock` (releasing the lock, which resumes a suspended
\* acquirer if there is one) and answers 200, or 500 when the callable
\* raised; main prints the summary or the error and the process exits.
Finish(p) ==
    /\ pc[p] \in {"done", "raised"}
    /\ IF p \in Handlers
       THEN LET waiters == {h \in Handlers : pc[h] = "waiting"}
            IN  /\ resp' = [resp EXCEPT ![p] = IF pc[p] = "done" THEN "200" ELSE "500"]
                /\ IF waiters = {}
                   THEN /\ scrape_lock' = LockHeldAfter(pc[p])
                        /\ pc' = [pc EXCEPT ![p] = "responded"]
                        /\ run' = [run EXCEPT ![p] = Answered(p)]
                   ELSE LET w == CHOOSE h \in waiters : TRUE
                        IN  /\ scrape_lock' = TRUE
                            /\ pc' = [pc EXCEPT ![p] = "responded", ![w] = "auth"]
                            /\ \E payload \in Payloads :
                                  run' = [run EXCEPT ![p] = Answered(p),
                                                     ![w] = Accepted(payload)]
       ELSE /\ pc' = [pc EXCEPT ![p] = "idle"]
            /\ run' = [run EXCEPT ![p] = IdleRun]
            /\ UNCHANGED <<scrape_lock, resp>>
    /\ UNCHANGED <<disk, now, persisted, ups, lost>>

\* The operating system kills the process p runs in, at any point of a
\* session.  Killing the service ends every handler and its lock.
Kill(p) ==
    /\ InSession(p)
    /\ IF p \in Handlers
       THEN /\ pc' = [q \in Procs |-> IF q \in Handlers THEN "idle" ELSE pc[q]]
            /\ run' = [q \in Procs |-> IF q \in Handlers THEN IdleRun ELSE run[q]]
            /\ scrape_lock' = FALSE
            /\ resp' = [h \in Handlers |-> "none"]
       ELSE /\ pc' = [pc EXCEPT ![p] = "idle"]
            /\ run' = [run EXCEPT ![p] = IdleRun]
            /\ UNCHANGED <<scrape_lock, resp>>
    /\ UNCHANGED <<disk, now, persisted, ups, lost>>

\* ------------------------------------------------------------ authenticate
\* `if await page.locator("#kp-notebook-library").count() > 0`.
AlreadyLoggedInNever(count) == FALSE

AlreadyLoggedIn(count) == count > 0

\* `if self.totp_secret:` is false for an unset and for an empty variable.
TotpConfigured(secret) == secret # None /\ secret[1] # ""

\* `if not self.headless:` the operator completes the second factor by hand.
ManualFallbackAlways(headless) == TRUE

ManualFallback(headless) == ~headless

\* `return value` of authenticate.
AuthReturns(p, value, timed_out) ==
    /\ pc' = [pc EXCEPT ![p] = "a_returned"]
    /\ run' = [run EXCEPT ![p].auth.result = Some(value),
                          ![p].auth.timed_out = timed_out,
                          ![p].auth.waited =
                              IF timed_out = "none" THEN @ ELSE Append(@, timed_out)]

\* authenticate is called on a scraper built with any configuration: headless
\* or not, AMAZON_TOTP_SECRET unset, empty or set.
authenticate(p) ==
    /\ pc[p] = "idle"
    /\ \E headless \in BOOLEAN, secret \in {None, Some(""), Some("JBSWY3DP")} :
          run' = [run EXCEPT ![p] = [IdleRun EXCEPT !.auth.headless = headless,
                                                    !.auth.totp_secret = secret]]
    /\ pc' = [pc EXCEPT ![p] = "a_goto"]
    /\ UNCHANGED <<disk, now, scrape_lock, resp, persisted, ups, lost>>

\* page.goto(notebook url): the page loads, or the navigation raises.
AuthGoto(p) ==
    /\ pc[p] = "a_goto"
    /\ \/ pc' = [pc EXCEPT ![p] = "a_wait"]
       \/ pc' = [pc EXCEPT ![p] = "a_raised"]
    /\ UNCHANGED <<disk, now, run, scrape_lock, resp, persisted, ups, lost>>

\* The bounded wait for the email field or the library marker; a timeout is
\* caught and authenticate returns False.
AuthInitialWait(p) ==
    /\ pc[p] = "a_wait"
    /\ \/ /\ pc' = [pc EXCEPT ![p] = "a_library"]
          /\ run' = [run EXCEPT ![p].auth.waited = Append(@, "initial")]
       \/ AuthReturns(p, FALSE, "initial")
    /\ UNCHANGED <<disk, now, scrape_lock, resp, persisted, ups, lost>>

\* "Check if already logged in": with the marker on the page authenticate
\* returns True.
AuthLibraryCheck(p) ==
    /\ pc[p] = "a_library"
    /\ \E count \in {0, 1} :
          IF AlreadyLoggedIn(count)
          THEN /\ pc' = [pc EXCEPT ![p] = "a_returned"]
               /\ run' = [run EXCEPT ![p].auth.result = Some(TRUE),
                                     ![p].auth.library_at_check = (count > 0)]
          ELSE /\ pc' = [pc EXCEPT ![p] = "a_email"]
               /\ run' = [run EXCEPT ![p].auth.library_at_check = (count > 0)]
    /\ UNCHANGED <<disk, now, scrape_lock, resp, persisted, ups, lost>>

\* "Fill in email": when the field is there it is filled and submitted (the
\* click can raise); when it is not, src/scraper.py clicks the continue
\* button of a pre-selected account if there is one (lines 86-93); otherwise
\* nothing is submitted.
AuthEmail(p) ==
    /\ pc[p] = "a_email"
    /\ \/ /\ \E step \in {"email", "continue"} :
                run' = [run EXCEPT ![p].auth.submitted = Append(@, step)]
          /\ \/ pc' = [pc EXCEPT ![p] = "a_password"]
             \/ pc' = [pc EXCEPT ![p] = "a_raised"]
       \/ /\ pc' = [pc EXCEPT ![p] = "a_password"]
          /\ UNCHANGED run
    /\ UNCHANGED <<disk, now, scrape_lock, resp, persisted, ups, lost>>

\* "Fill in password".
AuthPassword(p) ==
    /\ pc[p] = "a_password"
    /\ \/ /\ run' = [run EXCEPT ![p].auth.submitted = Append(@, "password")]
          /\ \/ pc' = [pc EXCEPT ![p] = "a_totp"]
             \/ pc' = [pc EXCEPT ![p] = "a_raised"]
       \/ /\ pc' = [pc EXCEPT ![p] = "a_totp"]
          /\ UNCHANGED run
    /\ UNCHANGED <<disk, now, scrape_lock, resp, persisted, ups, lost>>

\* A variant in which a submitted code leads back to the password step.
AuthTotpRetriesPassword(p) ==
    /\ pc[p] = "a_totp"
    /\ \E count \in {0, 1} :
          IF count > 0 /\ TotpConfigured(run[p].auth.totp_secret)
          THEN /\ run' = [run EXCEPT ![p].auth.submitted = Append(@, "code"),
                                     ![p].auth.totp_at_check = TRUE]
               /\ pc' = [pc EXCEPT ![p] = "a_password"]
          ELSE /\ pc' = [pc EXCEPT ![p] = "a_final"]
               /\ run' = [run EXCEPT ![p].auth.totp_at_check = (count > 0)]
    /\ UNCHANGED <<disk, now, scrape_lock, resp, persisted, ups, lost>>

\* "Handle TOTP if required": with the code field on the page, a configured
\* secret gives a code that is submitted; with none, a headful run waits for
\* the operator and a headless run returns False.
AuthTotp(p) ==
    /\ pc[p] = "a_totp"
    /\ \E count \in {0, 1} :
          IF count > 0
          THEN IF TotpConfigured(run[p].auth.totp_secret)
               THEN /\ run' = [run EXCEPT ![p].auth.submitted = Append(@, "code"),
                                          ![p].auth.totp_at_check = TRUE]
                    /\ pc' = [pc EXCEPT ![p] = "a_final"]
               ELSE IF ManualFallback(run[p].auth.headless)
               THEN /\ run' = [run EXCEPT ![p].auth.totp_at_check = TRUE]
                    /\ pc' = [pc EXCEPT ![p] = "a_manual"]
               ELSE /\ run' = [run EXCEPT ![p].auth.totp_at_check = TRUE,
                                          ![p].auth.result = Some(FALSE)]
                    /\ pc' = [pc EXCEPT ![p] = "a_returned"]
          ELSE /\ pc' = [pc EXCEPT ![p] = "a_final"]
               /\ UNCHANGED run
    /\ UNCHANGED <<disk, now, scrape_lock, resp, persisted, ups, lost>>

\* The 60-second wait for the library marker while the operator completes
\* the second factor: it stands outside any try, so its timeout leaves
\* authenticate as an exception.
AuthManualWait(p) ==
    /\ pc[p] = "a_manual"
    /\ \/ /\ pc' = [pc EXCEPT ![p] = "a_final"]
          /\ run' = [run EXCEPT ![p].auth.waited = Append(@, "manual")]
       \/ /\ pc' = [pc EXCEPT ![p] = "a_raised"]
          /\ run' = [run EXCEPT ![p].auth.waited = Append(@, "manual"),
                                ![p].auth.timed_out = "manual"]
    /\ UNCHANGED <<disk, now, scrape_lock, resp, persisted, ups, lost>>

\* A variant whose final wait reports success when it times out.
AuthFinalWaitIgnoresTimeout(p) ==
    /\ pc[p] = "a_final"
    /\ \/ /\ pc' = [pc EXCEPT ![p] = "a_returned"]
          /\ run' = [run EXCEPT ![p].auth.result = Some(TRUE),
                                ![p].auth.waited = Append(@, "final")]
       \/ AuthReturns(p, TRUE, "final")
    /\ UNCHANGED <<disk, now, scrape_lock, resp, persisted, ups, lost>>

\* "Wait for successful login": True when the marker appears, False when the
\* wait times out.
AuthFinalWait(p) ==
    /\ pc[p] = "a_final"
    /\ \/ /\ pc' = [pc EXCEPT ![p] = "a_returned"]
          /\ run' = [run EXCEPT ![p].auth.result = Some(TRUE),
                                ![p].auth.waited = Append(@, "final")]
       \/ AuthReturns(p, FALSE, "final")
    /\ UNCHANGED <<disk, now, scrape_lock, resp, persisted, ups, lost>>

\* The caller has the result (or the exception).
AuthDone(p) ==
    /\ pc[p] \in {"a_returned", "a_raised"}
    /\ pc' = [pc EXCEPT ![p] = "idle"]
    /\ run' = [run EXCEPT ![p] = IdleRun]
    /\ UNCHANGED <<disk, now, scrape_lock, resp, persisted, ups, lost>>

\* ------------------------------------------------- the stabilization poller
\* The poll loops of get_book_list (lines 100-119) and scrape_book_highlights
\* (lines 153-171) are the same code over different selectors.

\* `while stable_count < 3`.
StableChecks == 3

\* The element counts the page can show after a scroll.
Counts == {0, 3, 5, 8}

\* The body of the loop after the count is read:
\*   if current_count == last_count: stable_count += 1
\*   else: stable_count = 0; last_count = current_count
PollUpdateNeverResets(last_count, stable_count, current_count) ==
    [last_count |-> current_count, stable_count |-> stable_count + 1]

PollUpdateCountsTheChange(last_count, stable_count, current_count) ==
    IF current_count = last_count
    THEN [last_count |-> last_count, stable_count |-> stable_count + 1]
    ELSE [last_count |-> current_count, stable_count |-> 1]

\* A variant that takes a decrease for no change.
PollUpdateIgnoresDecrease(last_count, stable_count, current_count) ==
    IF current_count <= last_count
    THEN [last_count |-> last_count, stable_count |-> stable_count + 1]
    ELSE [last_count |-> current_count, stable_count |-> 0]

\* A variant that resets the streak and keeps the old reference count.
PollUpdateKeepsReference(last_count, stable_count, current_count) ==
    IF current_count = last_count
    THEN [last_count |-> last_count, stable_count |-> stable_count + 1]
    ELSE [last_count |-> last_count, stable_count |-> 0]

PollUpdate(last_count, stable_count, current_count) ==
    IF current_count = last_count
    THEN [last_count |-> last_count, stable_count |-> stable_count + 1]
    ELSE [last_count |-> current_count, stable_count |-> 0]

\* The function is entered and reaches its loop: last_count = 0,
\* stable_count = 0.
PollCall(p) ==
    /\ pc[p] = "idle"
    /\ run' = [run EXCEPT ![p] = [IdleRun EXCEPT !.last_count = 0,
                                                  !.stable_count = 0]]
    /\ pc' = [pc EXCEPT ![p] = "poll"]
    /\ UNCHANGED <<disk, now, scrape_lock, resp, persisted, ups, lost>>

\* One iteration: the loop test passes, the page is scrolled, two seconds
\* pass, the count is read (any count the page shows) and the counters are
\* updated.  The history keeps the first MaxPolls observations of a loop and
\* is dropped when the loop goes beyond them.
PollStep(p) ==
    /\ pc[p] = "poll"
    /\ run[p].stable_count < StableChecks
    /\ \E c \in Counts :
          LET u == PollUpdate(run[p].last_count, run[p].stable_count, c)
              full == run[p].more \/ Len(run[p].observed) = MaxPolls
          IN  run' = [run EXCEPT ![p].current_count = c,
                                 ![p].last_count = u.last_count,
                                 ![p].stable_count = u.stable_count,
                                 ![p].observed = IF full THEN <<>> ELSE Append(@, c),
                                 ![p].more = full]
    /\ UNCHANGED <<disk, now, pc, scrape_lock, resp, persisted, ups, lost>>

\* The loop test fails and the function goes on to read the HTML.
PollEnd(p) ==
    /\ pc[p] = "poll"
    /\ ~(run[p].stable_count < StableChecks)
    /\ pc' = [pc EXCEPT ![p] = "polled"]
    /\ UNCHANGED <<disk, now, run, scrape_lock, resp, persisted, ups, lost>>

\* The function returns to its caller.
PollReturn(p) ==
    /\ pc[p] = "polled"
    /\ pc' = [pc EXCEPT ![p] = "idle"]
    /\ run' = [run EXCEPT ![p] = IdleRun]
    /\ UNCHANGED <<disk, now, scrape_lock, resp, persisted, ups, lost>>

\* ------------------------------------------------- calls of the extractors
\* The state of p after a call of extractor fn of one of the two modules
\* with argument arg, which returned ret.
Call(p, fn, package, arg, ret) ==
    [run EXCEPT ![p].call =
        Some([fn |-> fn, package |-> package, arg |-> arg, ret |-> ret])]

ExtractColor(p) ==
    /\ pc[p] = "idle"
    /\ \E package \in Packages, classes \in SeqsUpTo(ClassNames, MaxClasses) :
          run' = Call(p, "extract_color_from_classes", package, classes,
                      IF package = "src" THEN extract_color_from_classes_src(classes)
                      ELSE extract_color_from_classes(classes))
    /\ pc' = [pc EXCEPT ![p] = "extracted"]
    /\ UNCHANGED <<disk, now, scrape_lock, resp, persisted, ups, lost>>

ExtractPageLocation(p) ==
    /\ pc[p] = "idle"
    /\ \E package \in Packages, text \in Texts :
          run' = Call(p, "extract_page_location", package, text,
                      extract_page_location(text))
    /\ pc' = [pc EXCEPT ![p] = "extracted"]
    /\ UNCHANGED <<disk, now, scrape_lock, resp, persisted, ups, lost>>

ParseBookLibrary(p) ==
    /\ pc[p] = "idle"
    /\ \E package \in Packages, page \in LibraryPages :
          run' = Call(p, "parse_book_library", package, page,
                      IF package = "src" THEN parse_book_library_src(page)
                      ELSE parse_book_library(page))
    /\ pc' = [pc EXCEPT ![p] = "extracted"]
    /\ UNCHANGED <<disk, now, scrape_lock, resp, persisted, ups, lost>>

ParseAnnotations(p) ==
    /\ pc[p] = "idle"
    /\ \E package \in Packages, page \in AnnotationPages :
          run' = Call(p, "parse_annotations_html", package, page,
                      parse_annotations_html(page, package))
    /\ pc' = [pc EXCEPT ![p] = "extracted"]
    /\ UNCHANGED <<disk, now, scrape_lock, resp, persisted, ups, lost>>

ParseBookPage(p) ==
    /\ pc[p] = "idle"
    /\ \E package \in Packages, page \in BookPages :
          run' = Call(p, "parse_book_from_annotations_page", package, page,
                      IF package = "src" THEN parse_book_from_annotations_page_src(page)
                      ELSE parse_book_from_annotations_page(page))
    /\ pc' = [pc EXCEPT ![p] = "extracted"]
    /\ UNCHANGED <<disk, now, scrape_lock, resp, persisted, ups, lost>>

\* The caller takes the result.
ExtractReturn(p) ==
    /\ pc[p] = "extracted"
    /\ pc' = [pc EXCEPT ![p] = "idle"]
    /\ run' = [run EXCEPT ![p] = IdleRun]
    /\ UNCHANGED <<disk, now, scrape_lock, resp, persisted, ups, lost>>

\* ------------------------------------------------------- specifications
InitProcs ==
    /\ now = 0
    /\ pc = [p \in Procs |-> "idle"]
    /\ run = [p \in Procs |-> IdleRun]
    /\ scrape_lock = FALSE
    /\ resp = [h \in Handlers |-> "none"]
    /\ persisted = FileBooks(disk)
    /\ ups = <<>>
    /\ lost = {}

\* The sessions of the service on one output path, from a missing or an
\* empty store: one request handler, triggered again and again with any
\* payload; the service can be killed at any point.
Init ==
    /\ disk \in {Missing, JsonFile(ExportData(0, <<>>))}
    /\ InitProcs

\* One scrape session of p, from authenticate to the return of
\* scrape_kindle_highlights.
SessionBody(p, n) ==
    \/ Authenticate(p)
    \/ GetBookList(p, n)
    \/ Loop(p)
    \/ ScrapeFails(p)
    \/ ScrapeRaises(p)
    \/ ScrapeReturnsBook(p)
    \/ SaveOpen(p)
    \/ SaveDump(p, FALSE)
    \/ Returned(p)
    \/ ExportDump(p)

Session(p, n) ==
    \/ SessionBody(p, n)
    \/ Finish(p)

Next ==
    \/ Arrive("h1")
    \/ trigger_scrape("h1", TRUE)
    \/ Close("h1")
    \/ Session("h1", MaxLib)
    \/ Kill("h1")

Spec == Init /\ [][Next]_vars

\* The service alone: two request handlers of one event loop, triggered in
\* any interleaving with any payload.
NextSvc ==
    \E h \in Handlers :
        \/ Arrive(h)
        \/ trigger_scrape(h, TRUE)
        \/ Close(h)
        \/ Session(h, MaxLibConc)

SpecSvc == Init /\ [][NextSvc]_vars

\* Two sessions on the same output path, one started from the command line
\* and one by a trigger of the service, with no assumption that one session
\* runs at a time; each runs to the return of scrape_kindle_highlights.
NextConc ==
    \/ main(FALSE)
    \/ SessionBody("cli", MaxLibConc)
    \/ Arrive("h1")
    \/ trigger_scrape("h1", FALSE)
    \/ SessionBody("h1", MaxLibConc)

SpecConc == Init /\ [][NextConc]_vars

\* ---------------------------------------------------- the store on its own
\* save_book_progressively(book, output_path) called directly with any Book.
StoreCall(p) ==
    /\ pc[p] = "idle"
    /\ \E book \in BookObjects :
          LET data == load_existing_data(disk, now)
          IN  run' = [run EXCEPT ![p].book = Some(book),
                                 ![p].data = Some(data),
                                 ![p].loaded = BooksOf(data),
                                 ![p].caller = "direct"]
    /\ pc' = [pc EXCEPT ![p] = "save_open"]
    /\ UNCHANGED <<disk, now, scrape_lock, resp, persisted, ups, lost>>

\* Time passes.
Tick ==
    /\ now < MaxClock
    /\ now' = now + 1
    /\ UNCHANGED <<disk, pc, run, scrape_lock, resp, persisted, ups, lost>>

\* Any store (no file, a file that does not parse, any export document of
\* at most MaxStore books, duplicates of an asin included) and any sequence
\* of upserts of any Books.
InitStore ==
    /\ disk \in {Missing, Truncated}
                \cup {JsonFile(ExportData(0, books)) :
                        books \in SeqsUpTo(BookDicts, MaxStore)}
    /\ InitProcs

NextStore ==
    \/ StoreCall("cli")
    \/ SaveOpen("cli")
    \/ SaveDump("cli", TRUE)
    \/ Tick

SpecStore == InitStore /\ [][NextStore]_vars

\* ------------------------------------------------ the store on any file
\* save_book_progressively called with any Book on any file: none, one that
\* cannot be opened, one that is not JSON, a JSON document that is not an
\* export document, an export document.  An exception ends the process.
InitLoad ==
    /\ disk \in {Missing, Truncated, Unreadable}
                \cup {JsonFile(d) : d \in OtherDocuments}
                \cup {JsonFile(ExportData(0, books)) :
                        books \in SeqsUpTo(BookDicts, MaxStore)}
    /\ InitProcs

NextLoad ==
    \/ StoreCall("cli")
    \/ SaveOpen("cli")
    \/ SaveDump("cli", FALSE)
    \/ Finish("cli")

SpecLoad == InitLoad /\ [][NextLoad]_vars

\* ------------------------------------------------- sessions as time passes
\* Sessions of the service one after another, triggered with any payload,
\* from a missing or an empty store, while the wall clock advances.
NextTime ==
    \/ Arrive("h1")
    \/ trigger_scrape("h1", TRUE)
    \/ Close("h1")
    \/ Session("h1", MaxLibConc)
    \/ Tick

SpecTime == Init /\ [][NextTime]_vars

\* ----------------------------------------------------- the poller on its own
\* One poll loop after another, over every sequence of counts the page shows.
InitPoll ==
    /\ disk = Missing
    /\ InitProcs

NextPoll ==
    \/ PollCall("cli")
    \/ PollStep("cli")
    \/ PollEnd("cli")
    \/ PollReturn("cli")

SpecPoll == InitPoll /\ [][NextPoll]_vars

\* The same, with the scheduling the code has: the coroutine of the loop is
\* resumed after each two-second wait, so an iteration that can run does run,
\* and so does the exit of the loop.
SpecPollFair ==
    /\ InitPoll
    /\ [][NextPoll]_vars
    /\ WF_vars(PollStep("cli"))
    /\ WF_vars(PollEnd("cli"))

\* ------------------------------------------------- authenticate on its own
\* One call of authenticate after another, with every configuration and
\* every behaviour of the page.
InitAuth ==
    /\ disk = Missing
    /\ InitProcs

NextAuth ==
    \/ authenticate("cli")
    \/ AuthGoto("cli")
    \/ AuthInitialWait("cli")
    \/ AuthLibraryCheck("cli")
    \/ AuthEmail("cli")
    \/ AuthPassword("cli")
    \/ AuthTotp("cli")
    \/ AuthManualWait("cli")
    \/ AuthFinalWait("cli")
    \/ AuthDone("cli")

SpecAuth == InitAuth /\ [][NextAuth]_vars

\* ------------------------------------------------ the extractors on their own
\* One call of an extractor after another, of either module, on every input
\* within the bounds.
InitParse ==
    /\ disk = Missing
    /\ InitProcs

NextParse ==
    \/ ExtractColor("cli")
    \/ ExtractPageLocation("cli")
    \/ ParseBookLibrary("cli")
    \/ ParseAnnotations("cli")
    \/ ParseBookPage("cli")
    \/ ExtractReturn("cli")

SpecParse == InitParse /\ [][NextParse]_vars

\* --------------------------------------------- the read-only endpoints alone
\* GET /books and GET /highlights, from two handlers in any interleaving, on
\* every file: none, unreadable, not JSON, not an export document, an export
\* document.
InitApi == InitLoad

NextApi ==
    \E h \in Handlers :
        \/ Arrive(h)
        \/ list_books(h)
        \/ list_highlights(h)
        \/ Close(h)

SpecApi == InitApi /\ [][NextApi]_vars

\* ------------------------------------------------------------------ claims
CountAsin(books, asin) == Cardinality({i \in 1..Len(books) : books[i].asin = asin})

\* C1: an upsert of a Book whose asin is already in the store writes a books
\* sequence of the same length, with the Book's record at the index of the
\* old entry with that asin, and adds no entry for that asin.
C1_UpsertReplacesInPlace ==
    (Len(ups) > 0 /\ LastUp.book.asin \in AsinsOf(LastUp.before)) =>
        LET asin == LastUp.book.asin
            before == LastUp.before
            after == LastUp.after
        IN  /\ Len(after) = Len(before)
            /\ \E i \in 1..Len(before) :
                  /\ before[i].asin = asin
                  /\ \A j \in 1..(i - 1) : before[j].asin # asin
                  /\ after[i] = book_to_dict(LastUp.book)
            /\ CountAsin(after, asin) = CountAsin(before, asin)

\* An upsert replaced the second entry of a two-book store by another content.
C1_Witness ==
    /\ Len(ups) > 0
    /\ Len(LastUp.before) = 2
    /\ LastUp.before[1].asin # LastUp.book.asin
    /\ LastUp.before[2].asin = LastUp.book.asin
    /\ LastUp.before[2] # book_to_dict(LastUp.book)
    /\ FileBooks(disk) = LastUp.after

\* C2: upserting the same Book twice in a row gives the same books content
\* after the second upsert as after the first, and the second upsert leaves
\* the length of books unchanged.
C2_UpsertIdempotent ==
    (Len(ups) = 2 /\ ups[1].book = ups[2].book) =>
        /\ ups[2].after = ups[1].after
        /\ Len(ups[2].after) = Len(ups[2].before)

\* The same Book was upserted twice in a row into a store that holds another
\* book before it, the second time at a later instant.
C2_Witness ==
    /\ Len(ups) = 2
    /\ ups[1].book = ups[2].book
    /\ ups[2].before = ups[1].after
    /\ Len(ups[2].before) = 2
    /\ ups[2].before[2].asin = ups[2].book.asin
    /\ ups[2].before[1].asin # ups[2].book.asin
    /\ disk.kind = "json"
    /\ disk.data.run.timestamp > 0

\* C3: in every reachable state of the persisted store, no two entries of
\* books have the same asin.
C3_OneEntryPerAsin ==
    \A i, j \in 1..Len(FileBooks(disk)) :
        FileBooks(disk)[i].asin = FileBooks(disk)[j].asin => i = j

FullRun(p) == InSession(p) /\ ~IsSpecific(run[p].asin)

AtEnd(p) == pc[p] \in {"returned", "export_dump", "done"}

\* The entries of `books`, in order, whose asin is in S.
Restrict(books, S) == SelectSeq(books, LAMBDA d : d.asin \in S)

\* C4: in a full-library run with resume true, no scrape is started for a
\* library entry whose asin was in the store when the run started, and the
\* stored records of those asins are the same at the end of the run as at
\* its start.
C4_ResumeSkipsStored ==
    \A p \in Procs :
        (FullRun(p) /\ run[p].resume) =>
            LET stored == AsinsOf(run[p].start)
            IN  /\ run[p].target # None => run[p].target[1] \notin stored
                /\ \A i \in 1..Len(run[p].outcome) :
                      run[p].book_list[i].asin \in stored =>
                          run[p].outcome[i] = "skipped"
                /\ pc[p] \in {"returned", "done", "raised"} =>
                      Restrict(FileBooks(disk), stored) = run[p].start

\* A resumed full run has ended after skipping a stored entry and saving
\* another book.
C4_Witness ==
    \E p \in Procs :
        /\ pc[p] = "done"
        /\ FullRun(p) /\ run[p].resume
        /\ run[p].start # <<>>
        /\ run[p].outcome = <<"skipped", "saved">>

\* The asins whose scrape this run has started.
ScrapedAsins(p) ==
    IF IsSpecific(run[p].asin) THEN {run[p].asin[1]}
    ELSE {run[p].book_list[i].asin :
            i \in {k \in 1..Len(run[p].outcome) : run[p].outcome[k] # "skipped"}}

\* C5: after a run with resume false has returned from
\* scrape_kindle_highlights, every book that was in the store before the run
\* and whose asin the run did not scrape is still in the store, unchanged.
C5_FreshRunKeepsOthers ==
    \A p \in Procs :
        (pc[p] = "done" /\ ~run[p].resume) =>
            \A i \in 1..Len(run[p].start) :
                run[p].start[i].asin \notin ScrapedAsins(p) =>
                    \E j \in 1..Len(FileBooks(disk)) :
                        FileBooks(disk)[j] = run[p].start[i]

\* The Book of `books` that the store must hold for asin a: the last one
\* scraped.
LastScraped(books, a) ==
    books[CHOOSE i \in 1..Len(books) :
            /\ books[i].asin = a
            /\ \A j \in (i + 1)..Len(books) : books[j].asin # a]

\* C6: whenever a session stands between two books (at the loop head or in
\* the scrape of the next entry), every book it has scraped successfully is
\* in the persisted store.
C6_SavedBeforeNextScrape ==
    \A p \in Procs :
        (FullRun(p) /\ pc[p] \in {"loop", "scrape"}) =>
            \A a \in AsinsOf(run[p].books) :
                \E j \in 1..Len(FileBooks(disk)) :
                    FileBooks(disk)[j] = book_to_dict(LastScraped(run[p].books, a))

\* The scrape of the second entry is in flight, the first book is saved, and
\* the store held another book before the run.
C6_Witness ==
    \E p \in Procs :
        /\ pc[p] = "scrape"
        /\ FullRun(p)
        /\ Len(run[p].books) = 1
        /\ run[p].start # <<>>
        /\ run[p].books[1].asin \notin AsinsOf(run[p].start)
        /\ run[p].target[1] # run[p].books[1].asin

\* The process of p is killed in this step.
Killed(p) == InSession(p) /\ pc[p] \notin {"done", "raised"} /\ pc'[p] = "idle"

\* C7: when the process is killed at any point of a session, every book of
\* the persisted store is still returned by the next load of the store.
C7_KillLosesNoBook ==
    [][\A p \in Procs :
          Killed(p) => AsinsOf(persisted) \subseteq AsinsOf(FileBooks(disk'))]_vars

\* C8: a failed scrape of one book in a full-library run writes nothing to
\* the store and passes to the next library entry; the loop is left only
\* after every entry of the listing has been processed.
C8_FailedBookIsSkipped ==
    /\ [](\A p \in Procs :
            (FullRun(p) /\ AtEnd(p)) =>
                /\ run[p].idx = Len(run[p].book_list) + 1
                /\ Len(run[p].outcome) = Len(run[p].book_list))
    /\ [][\A p \in Procs :
            (FullRun(p) /\ pc[p] = "scrape"
                /\ run'[p].outcome = Append(run[p].outcome, "failed")) =>
                /\ disk' = disk
                /\ pc'[p] = "loop"
                /\ run'[p].idx = run[p].idx + 1
                /\ run'[p].books = run[p].books]_vars

\* A full run has ended after a failed first entry and a saved second one.
C8_Witness ==
    \E p \in Procs :
        /\ pc[p] = "done"
        /\ FullRun(p)
        /\ run[p].outcome = <<"failed", "saved">>
        /\ Len(FileBooks(disk)) > 0
        /\ FileBooks(disk)[Len(FileBooks(disk))] = book_to_dict(run[p].books[1])

\* C9: at most one scrape callable runs at any time, no trigger ever waits
\* for the lock, and a trigger that is handled while a scrape runs is
\* answered 409 in that same step, changing nothing else.
C9_OneScrapeOthersRejected ==
    /\ [](/\ Cardinality({h \in Handlers : InSession(h)}) <= 1
          /\ (\E h \in Handlers : InSession(h)) => scrape_lock
          /\ \A h \in Handlers : pc[h] # "waiting")
    /\ [][\A h \in Handlers :
            (/\ pc[h] = "received"
             /\ pc'[h] # "received"
             /\ \E g \in Handlers \ {h} : InSession(g)) =>
                /\ pc'[h] = "responded"
                /\ resp'[h] = "409"
                /\ UNCHANGED <<disk, run, scrape_lock>>]_vars

\* One handler is in the middle of a scrape and the other has been answered
\* 409.
C9_Witness ==
    \E h, g \in Handlers :
        /\ pc[h] = "scrape"
        /\ pc[g] = "responded"
        /\ resp[g] = "409"

\* C10: two sessions on the same output path, however started, never
\* interleave their load-modify-write cycles, so no book upserted by one
\* session is erased by an upsert write of the other.  (`lost` collects the
\* asins erased that way; a write erases another session's upsert only when
\* its load came before that upsert, that is, when the cycles interleave.)
C10_NoLostUpsert == lost = {}

\* A single-ASIN session: the caller passed an asin.
SingleRun(p) == InSession(p) /\ run[p].asin # None /\ run[p].asin[1] # ""

\* C11: in a session for one requested asin, whatever resume is and whatever
\* the store holds, an authenticated session goes straight to the scrape of
\* that asin (no listing, no skip), a scrape that yields a book goes on to
\* the upsert of that book, and when scrape_all_books has returned the book
\* the store holds its record.
C11_SingleAsinIsUpserted ==
    /\ [](\A p \in Procs :
            SingleRun(p) =>
                /\ \A i \in 1..Len(run[p].outcome) : run[p].outcome[i] # "skipped"
                /\ (pc[p] = "returned" /\ run[p].books # <<>>) =>
                      \E j \in 1..Len(FileBooks(disk)) :
                          FileBooks(disk)[j] = book_to_dict(run[p].books[1]))
    /\ [][\A p \in Procs :
            /\ (SingleRun(p) /\ pc[p] = "auth" /\ pc'[p] \notin {"auth", "raised", "idle"}) =>
                  /\ pc'[p] = "scrape"
                  /\ run'[p].target = run[p].asin
            /\ (SingleRun(p) /\ pc[p] = "scrape"
                    /\ Len(run'[p].books) = Len(run[p].books) + 1) =>
                  /\ pc'[p] = "save_open"
                  /\ run'[p].book = Some(run'[p].books[1])
                  /\ run'[p].books[1].asin = run[p].asin[1]]_vars

\* A single-ASIN session with resume true has returned its book, whose asin
\* the store already held before the session, with other content.
C11_Witness ==
    \E p \in Procs :
        /\ SingleRun(p) /\ run[p].resume
        /\ pc[p] = "returned"
        /\ Len(run[p].books) = 1
        /\ \E i \in 1..Len(run[p].start) :
              /\ run[p].start[i].asin = run[p].asin[1]
              /\ run[p].start[i] # book_to_dict(run[p].books[1])

\* The observation before the i-th one (the initial last_count before the first).
Pred(obs, i) == IF i = 1 THEN 0 ELSE obs[i - 1]

\* The stable streak of a history of observations: the number of trailing
\* observations each equal to the one before it.
Streak(obs) ==
    LET changes == {i \in 1..Len(obs) : obs[i] # Pred(obs, i)}
    IN  IF changes = {} THEN Len(obs)
        ELSE Len(obs) - (CHOOSE i \in changes : \A j \in changes : j <= i)

\* C12: an observation greater than the previous one sets the streak to
\* zero and an equal one adds one to it; the counter is the streak of the
\* observations made so far; the loop goes on while the streak is below 3 and
\* is left, with no further observation, as soon as it is 3.
C12_StreakResetAndThreshold ==
    /\ [](\A p \in Procs :
            /\ pc[p] \in {"poll", "polled"} =>
                  /\ run[p].stable_count <= StableChecks
                  /\ ~run[p].more => run[p].stable_count = Streak(run[p].observed)
            /\ pc[p] = "polled" =>
                  /\ run[p].stable_count = 3
                  /\ ~run[p].more =>
                        \A k \in 0..(Len(run[p].observed) - 1) :
                            Streak(SubSeq(run[p].observed, 1, k)) < 3)
    /\ [][\A p \in Procs :
            /\ (pc[p] = "poll" /\ pc'[p] = "poll" /\ run'[p] # run[p]) =>
                  /\ run[p].stable_count < 3
                  /\ run'[p].current_count > run[p].last_count =>
                        run'[p].stable_count = 0
                  /\ run'[p].current_count = run[p].last_count =>
                        run'[p].stable_count = run[p].stable_count + 1
            /\ (pc[p] = "poll" /\ run[p].stable_count = 3 /\ pc'[p] # pc[p]) =>
                  pc'[p] = "polled"
            /\ (pc[p] = "poll" /\ pc'[p] = "polled") =>
                  run[p].stable_count = 3]_vars

\* A loop has ended after its streak was reset by an increase in the middle.
C12_Witness ==
    \E p \in Procs :
        /\ pc[p] = "polled"
        /\ ~run[p].more
        /\ Len(run[p].observed) = 7
        /\ run[p].observed[1] = 0
        /\ run[p].observed[3] < run[p].observed[4]

ObservedCounts == <<3, 5, 5, 5, 8, 8, 8, 8>>

\* C13 (as amended): on the observations 3,5,5,5,8,8,8,8 the loop ends
\* after the 8th observation and not after an earlier one: the 5th resets the
\* streak, the 6th to 8th bring it to 3.
C13_EndsAfterEighth ==
    \A p \in Procs :
        (/\ pc[p] \in {"poll", "polled"}
         /\ ~run[p].more
         /\ \E k \in 1..8 : run[p].observed = SubSeq(ObservedCounts, 1, k)) =>
            /\ pc[p] = "polled" => Len(run[p].observed) = 8
            /\ Len(run[p].observed) < 8 => run[p].stable_count < StableChecks
            /\ Len(run[p].observed) = 8 => run[p].stable_count = StableChecks

\* The loop has ended on exactly these eight observations.
C13_Witness ==
    \E p \in Procs :
        /\ pc[p] = "polled"
        /\ ~run[p].more
        /\ run[p].observed = ObservedCounts

\* C13 (as stated): after the 7th of these observations the loop has
\* reached its threshold.
C13_EndsAfterSeventh ==
    \A p \in Procs :
        (/\ pc[p] \in {"poll", "polled"}
         /\ ~run[p].more
         /\ run[p].observed = SubSeq(ObservedCounts, 1, 7)) =>
            run[p].stable_count >= StableChecks

\* C14: whatever counts the page shows, a poll loop that has started is
\* left after finitely many iterations.
C14_PollLoopTerminates ==
    \A p \in Procs : (pc[p] = "poll") ~> (pc[p] = "polled")

\* authenticate has ended, by a return or by an exception.
AuthEnded(p) == pc[p] \in {"a_returned", "a_raised"}

\* C15: when the library marker is on the page at the check that follows
\* the initial wait, authenticate returns True there and then: it has
\* submitted nothing and made no wait but the initial one.
C15_FastPathSubmitsNothing ==
    \A p \in Procs :
        run[p].auth.library_at_check =>
            /\ pc[p] = "a_returned"
            /\ run[p].auth.result = Some(TRUE)
            /\ run[p].auth.submitted = <<>>
            /\ run[p].auth.waited = <<"initial">>

\* authenticate has returned by the fast path, in a headless run with no
\* secret configured.
C15_Witness ==
    \E p \in Procs :
        /\ pc[p] = "a_returned"
        /\ run[p].auth.library_at_check
        /\ run[p].auth.headless
        /\ run[p].auth.totp_secret = None

\* C16: when the code field is on the page, no secret is configured (unset
\* or empty) and the run is headless, authenticate returns False at once:
\* no code is submitted and no wait for the library marker is made.
C16_UnattendedCodeFailsAtOnce ==
    \A p \in Procs :
        (/\ run[p].auth.totp_at_check
         /\ ~TotpConfigured(run[p].auth.totp_secret)
         /\ run[p].auth.headless) =>
            /\ pc[p] = "a_returned"
            /\ run[p].auth.result = Some(FALSE)
            /\ \A i \in 1..Len(run[p].auth.submitted) :
                  run[p].auth.submitted[i] # "code"
            /\ run[p].auth.waited = <<"initial">>
            /\ run[p].auth.timed_out = "none"

\* A headless run with an empty secret has failed at the code field after
\* submitting email and password.
C16_Witness ==
    \E p \in Procs :
        /\ pc[p] = "a_returned"
        /\ run[p].auth.totp_at_check
        /\ run[p].auth.headless
        /\ run[p].auth.totp_secret = Some("")
        /\ run[p].auth.result = Some(FALSE)
        /\ run[p].auth.submitted = <<"email", "password">>

\* C17: after a timeout of the initial wait, of the manual two-factor wait
\* or of the final wait, authenticate has returned False.
C17_TimeoutReturnsFalse ==
    \A p \in Procs :
        (AuthEnded(p) /\ run[p].auth.timed_out # "none") =>
            /\ pc[p] = "a_returned"
            /\ run[p].auth.result = Some(FALSE)

\* The authenticate of p's session returned False or raised.
AuthFailed(p) == run[p].auth.result = Some(FALSE) \/ run[p].auth.timed_out # "none"

\* C18: a session whose authentication failed stands at the raised
\* exception with no book scraped and none in flight, the store holds the
\* books it held when the session began, and no step of that session
\* (the failure itself, the return of the error to the caller) touches the
\* file.
C18_AuthFailureWritesNothing ==
    /\ [](\A p \in Procs :
            (InSession(p) /\ AuthFailed(p)) =>
                /\ pc[p] = "raised"
                /\ run[p].books = <<>>
                /\ run[p].outcome = <<>>
                /\ run[p].target = None
                /\ FileBooks(disk) = run[p].start)
    /\ [][\A p \in Procs :
            (InSession(p) /\ (AuthFailed(p) \/ pc[p] = "auth") /\ pc'[p] # "auth"
                /\ (run'[p].auth.result # Some(TRUE))) =>
                disk' = disk]_vars

\* A fresh session on a store that holds a book has failed to authenticate.
C18_Witness ==
    \E p \in Procs :
        /\ pc[p] = "raised"
        /\ AuthFailed(p)
        /\ ~run[p].resume
        /\ run[p].start # <<>>
        /\ disk.kind = "json"

\* C19: whatever the file holds, an upsert never ends in an exception: it
\* goes on from a fresh empty document when the file holds no export
\* document.
C19_UpsertNeverRaises ==
    \A p \in Procs : pc[p] # "raised"

CallOf(p, fn) == run[p].call # None /\ run[p].call[1].fn = fn

\* C21: every element of the sequence parse_annotations_html returns has a
\* non-empty id and a non-empty text, for every input and in both modules.
C21_NoEmptyHighlight ==
    \A p \in Procs :
        CallOf(p, "parse_annotations_html") =>
            \A i \in 1..Len(run[p].call[1].ret) :
                /\ run[p].call[1].ret[i].id # ""
                /\ run[p].call[1].ret[i].text # ""

\* C22: parse_book_from_annotations_page returns None whenever the asin or
\* the title it extracted is empty, so every Book it returns has a non-empty
\* asin and a non-empty title, in both modules.
C22_NoBookWithoutAsinOrTitle ==
    \A p \in Procs :
        (CallOf(p, "parse_book_from_annotations_page") /\ run[p].call[1].ret # None) =>
            /\ run[p].call[1].ret[1].asin # ""
            /\ run[p].call[1].ret[1].title # ""

\* The recognized color classes a class list contains.
Recognized(classes) == {classes[i] : i \in 1..Len(classes)} \cap color_map

\* C23: a class list with exactly one of the four recognized color classes
\* gives that class's color, whatever else is in the list and in whatever
\* order; a class list with none of them gives yellow; in both modules.
C23_ColorOfTheRecognizedClass ==
    \A p \in Procs :
        CallOf(p, "extract_color_from_classes") =>
            LET classes == run[p].call[1].arg
                color == run[p].call[1].ret
            IN  /\ Cardinality(Recognized(classes)) = 1 =>
                       \A c \in Recognized(classes) : color = ColorOf(c.suffix)
                /\ Recognized(classes) = {} => color = "yellow"

\* The text with every token `w` replaced by other text.
Erase(text, w) == [i \in 1..Len(text) |-> IF text[i].word = w THEN Word("x") ELSE text[i]]

\* C24: extract_page_location finds page and location independently: page
\* is the number of the first "Page " that digits follow, None when there is
\* none, and location the same for "Location "; neither result depends on
\* whether the other pattern occurs in the text.
C24_PageAndLocationIndependent ==
    \A p \in Procs :
        CallOf(p, "extract_page_location") =>
            LET text == run[p].call[1].arg
                ret == run[p].call[1].ret
                pages == {i \in 1..(Len(text) - 1) :
                             text[i] = Word("Page ") /\ text[i + 1].word = "digits"}
                locations == {i \in 1..(Len(text) - 1) :
                                 text[i] = Word("Location ") /\ text[i + 1].word = "digits"}
            IN  /\ pages = {} => ret.page = None
                /\ pages # {} => ret.page = Some(text[Least(pages) + 1].n)
                /\ locations = {} => ret.location = None
                /\ locations # {} => ret.location = Some(text[Least(locations) + 1].n)
                /\ ret.page = extract_page_location(Erase(text, "Location ")).page
                /\ ret.location = extract_page_location(Erase(text, "Page ")).location

\* A text with both: "Page 42 Location 7" gave page 42 and location 7.
C24_Witness ==
    \E p \in Procs :
        /\ CallOf(p, "extract_page_location")
        /\ run[p].call[1].arg = <<Word("Page "), Digits(42), Word("Location "), Digits(7)>>
        /\ run[p].call[1].ret = [page |-> Some(42), location |-> Some(7)]

RECURSIVE Offset(_, _)
Offset(books, b) ==
    IF b = 1 THEN 0 ELSE Offset(books, b - 1) + Len(books[b - 1].highlights)

\* The books of the cached store a read endpoint answered from.
CachedBooks == IF disk.kind = "json" THEN disk.data.books ELSE <<>>

\* The body of the response of handler h, when it answered GET endpoint.
Replied(h, endpoint) ==
    run[h].response # None /\ run[h].response[1].endpoint = endpoint

\* C26: list_highlights returns every highlight of every book exactly once,
\* in book order then highlight order, each with its own keys unchanged and
\* with the asin, title and author of its parent book; count is the sum of
\* the books' highlight counts; the store is not modified.
C26_HighlightsFlattenedInOrder ==
    /\ [](\A h \in Handlers :
            Replied(h, "/highlights") =>
                LET body == run[h].response[1].body
                    books == CachedBooks
                IN  /\ body.count = Offset(books, Len(books) + 1)
                    /\ Len(body.highlights) = body.count
                    /\ \A b \in 1..Len(books) :
                           \A j \in 1..Len(books[b].highlights) :
                               LET e == body.highlights[Offset(books, b) + j]
                                   stored == books[b].highlights[j]
                               IN  /\ DOMAIN e = DOMAIN stored \cup {"asin", "title", "author"}
                                   /\ \A k \in DOMAIN stored : e[k] = stored[k]
                                   /\ e.asin = books[b].asin
                                   /\ e.title = books[b].title
                                   /\ e.author = books[b].author)
    /\ [][(\E h \in Handlers : Replied(h, "/highlights")') => disk' = disk]_vars

\* Two books of one and of two highlights gave three highlights.
C26_Witness ==
    \E h \in Handlers :
        /\ Replied(h, "/highlights")
        /\ Len(CachedBooks) = 2
        /\ CachedBooks[1].asin # CachedBooks[2].asin
        /\ Len(CachedBooks[1].highlights) = 1
        /\ Len(CachedBooks[2].highlights) = 2
        /\ run[h].response[1].body.count = 3
        /\ run[h].response[1].body.highlights[3].asin = CachedBooks[2].asin

\* C27: on a valid store list_books returns the stored run and the stored
\* books, unchanged and in stored order, with count their number; with no
\* store file it returns count 0, no books and a null run timestamp; the
\* store is not modified.
C27_BooksAsStored ==
    /\ [](\A h \in Handlers :
            Replied(h, "/books") =>
                LET body == run[h].response[1].body
                IN  /\ disk.kind = "json" =>
                           /\ body.books = disk.data.books
                           /\ body.count = Len(disk.data.books)
                           /\ body.run = disk.data.run
                    /\ disk.kind = "missing" =>
                           /\ body.books = <<>>
                           /\ body.count = 0
                           /\ body.run.timestamp = None
                    /\ disk.kind \in {"json", "missing"})
    /\ [][(\E h \in Handlers : Replied(h, "/books")') => disk' = disk]_vars

\* A store of two different books came back as it is.
C27_Witness ==
    \E h \in Handlers :
        /\ Replied(h, "/books")
        /\ run[h].response[1].body.count = 2
        /\ run[h].response[1].body.books[1] # run[h].response[1].body.books[2]
        /\ run[h].response[1].body.books = disk.data.books

\* C28: an accepted trigger_scrape calls the scrape callable exactly once,
\* with the asin of the payload, resume = not fresh and headless = not
\* headful; its response reports the requested asin, the number of books the
\* callable returned, the sum of their highlight counts and resume = not
\* fresh.
C28_ResponseReportsTheCall ==
    /\ [](\A h \in Handlers :
            /\ run[h].payload # None =>
                   /\ pc[h] = "auth"
                   /\ run[h].asin = run[h].payload[1].asin
                   /\ run[h].resume = ~run[h].payload[1].fresh
                   /\ run[h].auth.headless = ~run[h].payload[1].headful
            /\ InSession(h) => run[h].calls = 1
            /\ ~InSession(h) => run[h].calls = 0)
    /\ [][\A h \in Handlers :
            \* accepted: the callable is entered with the payload in hand
            /\ (pc[h] \in {"received", "waiting"} /\ pc'[h] = "auth") =>
                   run'[h].payload # None
            \* the session keeps the arguments of the call
            /\ (InSession(h) /\ InSession(h)') =>
                   /\ run'[h].asin = run[h].asin
                   /\ run'[h].resume = run[h].resume
            \* the callable returned: the response
            /\ (pc[h] = "done" /\ pc'[h] = "responded") =>
                   /\ resp'[h] = "200"
                   /\ run'[h].response # None
                   /\ run'[h].response[1].endpoint = "/scrape"
                   /\ run'[h].response[1].body.asin = run[h].asin
                   /\ run'[h].response[1].body.books = Len(run[h].books)
                   /\ run'[h].response[1].body.highlights =
                          Offset(run[h].books, Len(run[h].books) + 1)
                   /\ run'[h].response[1].body.resume = run[h].resume]_vars

\* A fresh run of the whole library that scraped two books of three
\* highlights in all has answered.
C28_Witness ==
    \E h \in Handlers :
        /\ pc[h] = "responded"
        /\ resp[h] = "200"
        /\ Replied(h, "/scrape")
        /\ run[h].response[1].body.asin = None
        /\ run[h].response[1].body.books = 2
        /\ run[h].response[1].body.highlights = 3
        /\ ~run[h].response[1].body.resume

\* C29: an upsert of Book b changes no stored entry whose asin differs from
\* b.asin: each keeps its content and its place; b is appended at the end,
\* making the list one longer, exactly when b.asin was not in the store.
C29_UpsertLeavesOthers ==
    Len(ups) > 0 =>
        LET asin == LastUp.book.asin
            before == LastUp.before
            after == LastUp.after
        IN  /\ \A i \in 1..Len(before) :
                   before[i].asin # asin => (i <= Len(after) /\ after[i] = before[i])
            /\ Restrict(after, Asins \ {asin}) = Restrict(before, Asins \ {asin})
            /\ Len(after) = Len(before) + 1 <=> asin \notin AsinsOf(before)
            /\ asin \notin AsinsOf(before) => after = Append(before, book_to_dict(LastUp.book))
            /\ asin \in AsinsOf(before) => Len(after) = Len(before)

\* A book was upserted into a store that held one book of another asin, and
\* the file now holds that book followed by the new one.
C29_Witness ==
    /\ Len(ups) > 0
    /\ Len(LastUp.before) = 1
    /\ LastUp.before[1].asin # LastUp.book.asin
    /\ LastUp.after = <<LastUp.before[1], book_to_dict(LastUp.book)>>
    /\ FileBooks(disk) = LastUp.after

\* The place of a step in the order email (or continue), password, code.
StepRank(step) ==
    IF step \in {"email", "continue"} THEN 1 ELSE IF step = "password" THEN 2 ELSE 3

\* The place of a position of authenticate in the order of its lines.
LineRank(at) ==
    IF at = "a_goto" THEN 0
    ELSE IF at = "a_wait" THEN 1
    ELSE IF at = "a_library" THEN 2
    ELSE IF at = "a_email" THEN 3
    ELSE IF at = "a_password" THEN 4
    ELSE IF at = "a_totp" THEN 5
    ELSE IF at = "a_manual" THEN 6
    ELSE IF at = "a_final" THEN 7
    ELSE 8

InAuth(p) ==
    pc[p] \in {"a_goto", "a_wait", "a_library", "a_email", "a_password",
               "a_totp", "a_manual", "a_final", "a_returned", "a_raised"}

\* C30: within one authenticate call the email (or continue) step comes
\* before the password step, the password step before the code step, and
\* the code step before the final wait; no step is repeated and none is
\* taken after a later one.
C30_StepsInOrder ==
    /\ [](\A p \in Procs :
            LET steps == run[p].auth.submitted
                waits == run[p].auth.waited
            IN  /\ \A i, j \in 1..Len(steps) :
                       i < j => StepRank(steps[i]) < StepRank(steps[j])
                /\ \A i \in 1..Len(waits) : waits[i] = "final" => i = Len(waits))
    /\ [][\A p \in Procs :
            (InAuth(p) /\ InAuth(p)') =>
                \* the call only moves forward
                /\ pc'[p] # pc[p] => LineRank(pc'[p]) > LineRank(pc[p])
                \* each step is taken at its own place
                /\ run'[p].auth.submitted # run[p].auth.submitted =>
                       \E step \in {"email", "continue", "password", "code"} :
                           /\ run'[p].auth.submitted = Append(run[p].auth.submitted, step)
                           /\ LineRank(pc[p]) = 2 + StepRank(step)
                \* the final wait comes after every step
                /\ (\E i \in 1..Len(run[p].auth.waited) : run[p].auth.waited[i] = "final") =>
                       run'[p].auth.submitted = run[p].auth.submitted]_vars

\* A call went through continue, password and code and then saw the library.
C30_Witness ==
    \E p \in Procs :
        /\ pc[p] = "a_returned"
        /\ run[p].auth.submitted = <<"continue", "password", "code">>
        /\ run[p].auth.waited[Len(run[p].auth.waited)] = "final"
        /\ run[p].auth.result = Some(TRUE)

\* C32: any change of the observed count, a decrease as well as an
\* increase, sets the streak to zero and makes the new count the reference;
\* after a decrease the loop ends only once three further observations have
\* been made, none of which is a change.
C32_DecreaseResetsTheStreak ==
    /\ [](\A p \in Procs :
            (pc[p] = "polled" /\ ~run[p].more) =>
                \A i \in 1..Len(run[p].observed) :
                    run[p].observed[i] < Pred(run[p].observed, i) =>
                        /\ Len(run[p].observed) >= i + 3
                        /\ \A k \in (Len(run[p].observed) - 2)..Len(run[p].observed) :
                               run[p].observed[k] = run[p].observed[k - 1])
    /\ [][\A p \in Procs :
            (pc[p] = "poll" /\ pc'[p] = "poll" /\ run'[p] # run[p]) =>
                /\ run'[p].current_count < run[p].last_count =>
                       /\ run'[p].stable_count = 0
                       /\ run'[p].last_count = run'[p].current_count
                /\ run'[p].current_count > run[p].last_count =>
                       /\ run'[p].stable_count = 0
                       /\ run'[p].last_count = run'[p].current_count]_vars

\* A loop has ended on five observations of which the second was a decrease
\* and the last three repeated it.
C32_Witness ==
    \E p \in Procs :
        /\ pc[p] = "polled"
        /\ ~run[p].more
        /\ Len(run[p].observed) = 5
        /\ run[p].observed[2] < run[p].observed[1]
        /\ run[p].observed[5] = run[p].observed[2]

\* C33: a loop that has ended has made at least 3 observations, and its
\* last 3 are all equal to the count observed just before them (0 before
\* the first); a count that stays at 0 ends the loop after exactly 3
\* observations, and a loop that ends on a nonzero count has made at least 4.
C33_LastThreeRepeatTheReference ==
    \A p \in Procs :
        (pc[p] = "polled" /\ ~run[p].more) =>
            LET obs == run[p].observed
                n == Len(obs)
            IN  /\ n >= 3
                /\ \A k \in (n - 2)..n : obs[k] = Pred(obs, n - 2)
                /\ (\A k \in 1..n : obs[k] = 0) => n = 3
                /\ obs[n] # 0 => n >= 4

\* A loop on a list of three elements has ended after four observations.
C33_Witness ==
    \E p \in Procs :
        /\ pc[p] = "polled"
        /\ ~run[p].more
        /\ run[p].observed = <<3, 3, 3, 3>>

\* C31: a truncation banner on a book's highlight view does not make the
\* scrape of that book fail: the Book is returned, appended to the run's
\* books and handed to save_book_progressively; and the truncation is a
\* warning attached to that book's result, so that the result of a
\* truncated view differs from the result of a complete one.
C31_TruncationWarningOnTheResult ==
    \A p \in Procs :
        (pc[p] = "save_open" /\ run[p].banner) =>
            /\ run[p].book # None
            /\ run[p].books # <<>>
            /\ run[p].books[Len(run[p].books)] = run[p].book[1]
            /\ run[p].warned
            /\ run[p].book[1] \notin BookObjects

\* C34: the scrape lock is released on every way out of an accepted
\* trigger_scrape, whether the callable returned or raised: the lock is held
\* only while a scrape is running, and a trigger handled while none is
\* running is accepted, never answered 409.
C34_LockReleasedOnEveryExit ==
    /\ [](scrape_lock => \E h \in Handlers : InSession(h))
    /\ [][\A h \in Handlers :
            /\ (pc[h] \in {"done", "raised"} /\ pc'[h] = "responded") =>
                   /\ ~scrape_lock'
                   /\ resp'[h] = (IF pc[h] = "done" THEN "200" ELSE "500")
            /\ (/\ pc[h] = "received"
                /\ pc'[h] # "received"
                /\ \A g \in Handlers : ~InSession(g)) =>
                   /\ pc'[h] = "auth"
                   /\ scrape_lock'
                   /\ resp'[h] # "409"]_vars

\* A scrape of one handler raised and was answered 500, and a trigger that
\* came later has been accepted.
C34_Witness ==
    \E h, g \in Handlers :
        /\ resp[g] = "500"
        /\ pc[g] \in {"responded", "idle"}
        /\ pc[h] = "auth"
        /\ run[h].payload # None
        /\ scrape_lock

\* C35: a trigger_scrape rejected because a scrape is running does not call
\* the scrape callable and changes neither the store, nor the running
\* scrape, nor the lock it holds; and a trigger is rejected only then.
C35_RejectedTriggerHasNoEffect ==
    [][\A h \in Handlers :
         (pc[h] = "received" /\ pc'[h] = "responded" /\ resp'[h] = "409") =>
             /\ \E g \in Handlers \ {h} : InSession(g)
             /\ run[h].calls = 0
             /\ run' = run
             /\ disk' = disk
             /\ persisted' = persisted
             /\ scrape_lock /\ scrape_lock'
             /\ \A g \in Handlers \ {h} : pc'[g] = pc[g]]_vars

\* A trigger was rejected while the other handler was writing a book.
C35_Witness ==
    \E h, g \in Handlers :
        /\ pc[h] = "responded"
        /\ resp[h] = "409"
        /\ run[h] = IdleRun
        /\ pc[g] = "save_dump"
        /\ scrape_lock

\* C36: authenticate returns True only after the library marker has been
\* observed: the marker was on the page at the check that follows the initial
\* wait, or the final wait for the marker was made and did not time out.
C36_SuccessOnlyAfterTheMarker ==
    \A p \in Procs :
        LET a == run[p].auth
        IN  a.result = Some(TRUE) =>
                /\ pc[p] = "a_returned"
                /\ a.waited # <<>>
                /\ a.waited[1] = "initial"
                /\ a.timed_out = "none"
                /\ \/ a.library_at_check
                   \/ a.waited[Len(a.waited)] = "final"

\* A headful call without a secret waited for the operator and then saw the
\* library in the final wait.
C36_Witness ==
    \E p \in Procs :
        /\ pc[p] = "a_returned"
        /\ run[p].auth.result = Some(TRUE)
        /\ ~run[p].auth.library_at_check
        /\ run[p].auth.waited = <<"initial", "manual", "final">>
        /\ run[p].auth.timed_out = "none"

\* The asin of the i-th entry a run has dealt with: the requested asin of a
\* single-ASIN run, the i-th listing entry of a full run.
EntryAsin(p, i) ==
    IF IsSpecific(run[p].asin) THEN run[p].asin[1] ELSE run[p].book_list[i].asin

\* The asins of the entries whose book was scraped and saved, in the order
\* of the listing.
SavedAsins(p) ==
    LET entries == [i \in 1..Len(run[p].outcome) |->
                        [asin |-> EntryAsin(p, i), outcome |-> run[p].outcome[i]]]
        IsSaved(e) == e.outcome = "saved"
        saved == SelectSeq(entries, IsSaved)
    IN  [k \in 1..Len(saved) |-> saved[k].asin]

\* C37: the sequence scrape_all_books returns holds one book for each entry
\* scraped successfully in this run, in library order, and nothing for an
\* entry skipped by resume or one whose scrape failed; `books` grows only by
\* the book a scrape returned, and each of its books went through an upsert
\* that left the book's record in the store.
C37_ReturnedBooksAreTheScrapedOnes ==
    /\ [](\A p \in Procs :
            pc[p] \in {"returned", "export_dump", "done"} =>
                /\ Len(run[p].books) = Len(SavedAsins(p))
                /\ \A k \in 1..Len(run[p].books) :
                       run[p].books[k].asin = SavedAsins(p)[k])
    /\ [][\A p \in Procs :
            /\ (InSession(p) /\ InSession(p)' /\ run'[p].books # run[p].books) =>
                   /\ pc[p] = "scrape" /\ pc'[p] = "save_open"
                   /\ Len(run'[p].books) = Len(run[p].books) + 1
                   /\ SubSeq(run'[p].books, 1, Len(run[p].books)) = run[p].books
                   /\ run'[p].books[Len(run'[p].books)].asin = run[p].target[1]
                   /\ run'[p].book = Some(run'[p].books[Len(run'[p].books)])
            /\ (InSession(p) /\ Len(run'[p].outcome) > Len(run[p].outcome)
                    /\ run'[p].outcome[Len(run'[p].outcome)] = "saved") =>
                   /\ pc[p] = "save_dump"
                   /\ run[p].book = Some(run[p].books[Len(run[p].books)])
                   /\ \E j \in 1..Len(FileBooks(disk')) :
                          FileBooks(disk')[j] = book_to_dict(run[p].book[1])]_vars

\* A full run has returned one book: the first entry's scrape failed, the
\* second entry's book was scraped and saved.
C37_Witness ==
    \E p \in Procs :
        /\ pc[p] = "returned"
        /\ FullRun(p)
        /\ run[p].outcome = <<"failed", "saved">>
        /\ Len(run[p].books) = 1
        /\ run[p].books[1].asin = run[p].book_list[2].asin

\* C38: a run opens its browser once and the browser is closed on every way
\* out of the try block (normal return, failed authentication, an exception
\* of the library enumeration, of a book scrape or of a save); the session
\* credentials are written only after authenticate returned True and before
\* the first book is scraped.
C38_BrowserClosedCredentialsInOrder ==
    /\ [](\A p \in Procs :
            /\ pc[p] \in {"list", "loop", "scrape", "save_open", "save_dump"} =>
                   run[p].browser = "open"
            /\ pc[p] \in {"returned", "export_dump", "done"} =>
                   run[p].browser = "closed"
            /\ pc[p] = "raised" =>
                   /\ run[p].browser \in {"closed", "stopped"}
                   /\ run[p].browser = "stopped" =>
                          /\ run[p].auth.result = None
                          /\ run[p].auth.timed_out = "none"
                          /\ ~run[p].state_saved
            /\ run[p].state_saved => run[p].auth.result = Some(TRUE)
            /\ (\/ run[p].target # None
                \/ run[p].books # <<>>
                \/ \E i \in 1..Len(run[p].outcome) : run[p].outcome[i] # "skipped") =>
                   run[p].state_saved)
    /\ [][\A p \in Procs :
            /\ (run'[p].browser = "open" /\ run[p].browser # "open") =>
                   pc[p] = "auth" /\ run[p].browser = "none"
            /\ (run[p].browser \in {"closed", "stopped"} /\ InSession(p)') =>
                   run'[p].browser = run[p].browser
            /\ (run'[p].state_saved /\ ~run[p].state_saved) =>
                   /\ pc[p] = "auth"
                   /\ pc'[p] \in {"list", "scrape"}
                   /\ run'[p].browser = "open"
                   /\ run'[p].books = <<>> /\ run'[p].outcome = <<>>]_vars

\* A full run saved its first book, the scrape of the second one raised,
\* and the run ended with its browser closed and its credentials written.
C38_Witness ==
    \E p \in Procs :
        /\ pc[p] = "raised"
        /\ FullRun(p)
        /\ run[p].outcome = <<"saved">>
        /\ Len(run[p].book_list) = 2
        /\ run[p].browser = "closed"
        /\ run[p].state_saved

====
